---------------------------- MODULE Spec2Model ----------------------------
(***************************************************************************)
(* Model of stl/src/tzdb.cpp: the lazily initialised table of ICU function *)
(* pointers (_Icu_functions, _Init_icu_functions, _Acquire_icu_functions), *)
(* and the sys_info / local_info queries built on top of the ICU calendar  *)
(* (_Get_cal, _Get_sys_time, __std_tzbd_get_sys_info,                      *)
(* __std_tzbd_get_local_info).                                             *)
(*                                                                         *)
(* Spec      : threads racing through the binding code.                    *)
(* FairSpec  : Spec with weak fairness of every thread that is inside a    *)
(*             call.                                                       *)
(* SpecInfo  : the two queries applied to inputs drawn from bounded sets,  *)
(*             over an in-memory rule table standing for the ICU backend.  *)
(***************************************************************************)
EXTENDS Integers, Sequences, FiniteSets, TLC

(***************************************************************************)
(* Bounds of the model.                                                    *)
(***************************************************************************)
\* number of threads that call into the binding concurrently
NumThreads == 2
\* total number of API calls made by all threads together
MaxCalls == 3
\* local/system instants are sampled within this many hours of a transition
MaxHours == 60
\* zone ids the backend enumerates for one registry build
MaxIds == 3
\* locate_zone calls on one snapshot
MaxLookups == 2
\* leap seconds the registry holds, and the caller already knows
MaxLeap == 2
\* snapshots in the tzdb_list
MaxSnapshots == 3

Threads == 1..NumThreads

(***************************************************************************)
(* enum class _Icu_api_level (tzdb.cpp:21-26), in declaration order.       *)
(***************************************************************************)
__not_set == 0
__detecting == 1
__has_failed == 2
__has_icu_addresses == 3

\* Win32 error codes: ERROR_SUCCESS, and what GetLastError() yields after a
\* failed GetProcAddress.
ERROR_SUCCESS == 0
ERROR_PROC_NOT_FOUND == 127

(***************************************************************************)
(* struct _Icu_functions_table (tzdb.cpp:28-42): the twelve pointers, in   *)
(* the order _Init_icu_functions resolves them (tzdb.cpp:71-86).           *)
(***************************************************************************)
Symbols ==
    << "ucal_close", "ucal_get", "ucal_getDefaultTimeZone",
       "ucal_getTimeZoneDisplayName", "ucal_getTimeZoneTransitionDate",
       "ucal_inDaylightTime", "ucal_open", "ucal_openTimeZoneIDEnumeration",
       "ucal_setMillis", "uenum_close", "uenum_count", "uenum_unext" >>

AllSymbols == { Symbols[i] : i \in 1..Len(Symbols) }

\* The export tables icu.dll may have: complete, or lacking one entry point.
ExportTables == { AllSymbols, AllSymbols \ {"ucal_open"} }

\* The entry points that acquire the binding, and those that do not.
AcquiringFns == { "__std_tzdb_get_time_zones", "__std_tzdb_get_current_zone" }
InfoFns == { "__std_tzbd_get_sys_info", "__std_tzbd_get_local_info" }

\* __std_tzdb_error (_Success, _Win_error, _Icu_error)
TzdbErrors == { "_Success", "_Win_error", "_Icu_error" }

VARIABLES
    Api_level,     \* _Icu_functions._Api_level
    Pfn,           \* the pointers of _Icu_functions that are stored non-null
    exported,      \* environment: the entry points icu.dll exports
    pc,            \* per thread: position in the code
    op,            \* per thread: the API function being executed
    Level,         \* per thread: the local _Level
    Module,        \* per thread: _Icu_module != nullptr
    Last_error,    \* per thread: the local _Last_error
    symIdx,        \* per thread: index of the next _Load_address call
    icuIdx,        \* per thread: index of the next backend call of a query
    ret,           \* per thread: value returned by _Acquire_icu_functions
    apiErr,        \* per thread: _Info->_Err of the last finished API call
    disp,          \* per thread: how the last API call reached the backend
    loaders,       \* history: threads that entered the load section
    failedPub,     \* history: __has_failed has been stored at some point
    afterFailed,   \* history, per thread: the call started after that store
    ncalls,        \* number of API calls started so far
    crashed,       \* the process died calling through a null pointer
    query,         \* SpecInfo: the input of the query
    answer         \* SpecInfo: the value the query returned

bindVars ==
    << Api_level, Pfn, exported, pc, op, Level, Module, Last_error, symIdx,
       icuIdx, ret, apiErr, disp, loaders, failedPub, afterFailed, ncalls,
       crashed >>
infoVars == << query, answer >>
vars == << bindVars, infoVars >>

NoQuery == [ fn |-> "none" ]
NoAnswer == [ fn |-> "none" ]

(***************************************************************************)
(* _Load_address (tzdb.cpp:46-54): GetProcAddress finds the symbol iff the *)
(* module exports it; on success the pointer is stored, otherwise          *)
(* _Last_error takes GetLastError().                                       *)
(***************************************************************************)
_Load_address_keeps_error(exports, stored, fn_name, last_error) ==
    IF fn_name \in exports
    THEN [ Pfn |-> stored \cup {fn_name}, Last_error |-> last_error ]
    ELSE [ Pfn |-> stored, Last_error |-> last_error ]

_Load_address(exports, stored, fn_name, last_error) ==
    IF fn_name \in exports
    THEN [ Pfn |-> stored \cup {fn_name}, Last_error |-> last_error ]
    ELSE [ Pfn |-> stored, Last_error |-> ERROR_PROC_NOT_FOUND ]

(***************************************************************************)
(* _Init_icu_functions, the test of the compare-exchange loop              *)
(* (tzdb.cpp:60): a failed exchange returns the observed level when it is  *)
(* past __detecting.                                                       *)
(***************************************************************************)
_Init_returns_detecting(level) == level >= __detecting

_Init_returns(level) == level > __detecting

(***************************************************************************)
(* _Init_icu_functions, the level it publishes (tzdb.cpp:65-93):           *)
(* __has_failed unless the module was loaded and no lookup left an error.  *)
(***************************************************************************)
_Init_level(module, last_error) ==
    IF module /\ last_error = ERROR_SUCCESS
    THEN __has_icu_addresses
    ELSE __has_failed

(***************************************************************************)
(* A call through one of the __icu_* wrappers (tzdb.cpp:108-170): the      *)
(* pointer is read relaxed and called, whatever _Api_level is.             *)
(***************************************************************************)
__icu_call(fn_name) ==
    IF fn_name \notin Pfn THEN "null_call"
    ELSE IF Api_level = __has_icu_addresses THEN "called_ready"
    ELSE "called_unready"

\* What calling through a null function pointer may do.
NullCallOutcomes == { "crash", "garbage" }

----------------------------------------------------------------------------
(***************************************************************************)
(* Spec: the binding.                                                      *)
(***************************************************************************)
Init ==
    /\ Api_level = __not_set
    /\ Pfn = {}
    /\ exported \in ExportTables
    /\ pc = [ t \in Threads |-> "idle" ]
    /\ op = [ t \in Threads |-> "none" ]
    /\ Level = [ t \in Threads |-> __not_set ]
    /\ Module = [ t \in Threads |-> FALSE ]
    /\ Last_error = [ t \in Threads |-> ERROR_SUCCESS ]
    /\ symIdx = [ t \in Threads |-> 1 ]
    /\ icuIdx = [ t \in Threads |-> 1 ]
    /\ ret = [ t \in Threads |-> __not_set ]
    /\ apiErr = [ t \in Threads |-> "_Success" ]
    /\ disp = [ t \in Threads |-> "none" ]
    /\ loaders = {}
    /\ failedPub = FALSE
    /\ afterFailed = [ t \in Threads |-> FALSE ]
    /\ ncalls = 0
    /\ crashed = FALSE
    /\ query = NoQuery
    /\ answer = NoAnswer

\* A thread enters __std_tzdb_get_time_zones or __std_tzdb_get_current_zone
\* (tzdb.cpp:324-335, 417-428) and with it _Acquire_icu_functions
\* (tzdb.cpp:99-106): the acquire load of _Api_level and the test.
CallAcquiring(t) ==
    /\ ~crashed /\ pc[t] = "idle" /\ ncalls < MaxCalls
    /\ \E f \in AcquiringFns : op' = [ op EXCEPT ![t] = f ]
    /\ ncalls' = ncalls + 1
    /\ disp' = [ disp EXCEPT ![t] = "none" ]
    /\ apiErr' = [ apiErr EXCEPT ![t] = "_Success" ]
    /\ afterFailed' = [ afterFailed EXCEPT ![t] = failedPub ]
    /\ Level' = [ Level EXCEPT ![t] = Api_level ]
    /\ IF Api_level <= __detecting
       THEN /\ pc' = [ pc EXCEPT ![t] = "cas" ]
            /\ ret' = ret
       ELSE /\ pc' = [ pc EXCEPT ![t] = "acquired" ]
            /\ ret' = [ ret EXCEPT ![t] = Api_level ]
    /\ UNCHANGED << Api_level, Pfn, exported, Module, Last_error, symIdx,
                    loaders, failedPub, crashed, icuIdx,
                    infoVars >>

\* compare_exchange_weak(_Level, __detecting) succeeds (tzdb.cpp:59), then
\* _Level = __has_failed (tzdb.cpp:65).
CasSucceeds(t) ==
    /\ ~crashed /\ pc[t] = "cas"
    /\ Api_level = Level[t]
    /\ Api_level' = __detecting
    /\ Level' = [ Level EXCEPT ![t] = __has_failed ]
    /\ pc' = [ pc EXCEPT ![t] = "load_library" ]
    /\ loaders' = loaders \cup {t}
    /\ UNCHANGED << Pfn, exported, op, Module, Last_error, symIdx, ret,
                    apiErr, disp, failedPub, afterFailed, ncalls, crashed,
                    icuIdx,
                    infoVars >>

\* compare_exchange_weak fails because _Api_level differs: _Level takes the
\* observed value, and the loop returns it or tries again (tzdb.cpp:59-63).
CasFails(t) ==
    /\ ~crashed /\ pc[t] = "cas"
    /\ Api_level # Level[t]
    /\ Level' = [ Level EXCEPT ![t] = Api_level ]
    /\ IF _Init_returns(Api_level)
       THEN /\ pc' = [ pc EXCEPT ![t] = "acquired" ]
            /\ ret' = [ ret EXCEPT ![t] = Api_level ]
       ELSE /\ pc' = pc
            /\ ret' = ret
    /\ UNCHANGED << Api_level, Pfn, exported, op, Module, Last_error, symIdx,
                    apiErr, disp, loaders, failedPub, afterFailed, ncalls,
                    crashed, icuIdx,
                    infoVars >>

\* compare_exchange_weak fails spuriously: _Level is reloaded with the value
\* it already has and the loop goes round; no variable changes.
CasSpurious(t) ==
    /\ ~crashed /\ pc[t] = "cas"
    /\ Api_level = Level[t]
    /\ UNCHANGED vars

\* LoadLibraryExW(L"icu.dll", ...) (tzdb.cpp:67-70); it may fail.
LoadLibrary(t) ==
    /\ ~crashed /\ pc[t] = "load_library"
    /\ \E loaded \in BOOLEAN :
          /\ Module' = [ Module EXCEPT ![t] = loaded ]
          /\ pc' = [ pc EXCEPT ![t] = IF loaded THEN "load_address" ELSE "store" ]
    /\ Last_error' = [ Last_error EXCEPT ![t] = ERROR_SUCCESS ]
    /\ symIdx' = [ symIdx EXCEPT ![t] = 1 ]
    /\ UNCHANGED << Api_level, Pfn, exported, op, Level, ret, apiErr, disp,
                    loaders, failedPub, afterFailed, ncalls, crashed, icuIdx,
                    infoVars >>

\* One of the twelve _Load_address calls (tzdb.cpp:71-86).
LoadAddress(t) ==
    /\ ~crashed /\ pc[t] = "load_address"
    /\ LET r == _Load_address(exported, Pfn, Symbols[symIdx[t]], Last_error[t])
       IN  /\ Pfn' = r.Pfn
           /\ Last_error' = [ Last_error EXCEPT ![t] = r.Last_error ]
    /\ IF symIdx[t] = Len(Symbols)
       THEN /\ pc' = [ pc EXCEPT ![t] = "store" ]
            /\ symIdx' = [ symIdx EXCEPT ![t] = 1 ]
       ELSE /\ pc' = pc
            /\ symIdx' = [ symIdx EXCEPT ![t] = symIdx[t] + 1 ]
    /\ UNCHANGED << Api_level, exported, op, Level, Module, ret, apiErr, disp,
                    loaders, failedPub, afterFailed, ncalls, crashed, icuIdx,
                    infoVars >>

\* The test of _Last_error and the release store (tzdb.cpp:87-96).
StoreLevel(t) ==
    /\ ~crashed /\ pc[t] = "store"
    /\ LET lv == _Init_level(Module[t], Last_error[t])
       IN  /\ Api_level' = lv
           /\ Level' = [ Level EXCEPT ![t] = lv ]
           /\ ret' = [ ret EXCEPT ![t] = lv ]
           /\ failedPub' = (failedPub \/ lv = __has_failed)
    /\ pc' = [ pc EXCEPT ![t] = "acquired" ]
    /\ UNCHANGED << Pfn, exported, op, Module, Last_error, symIdx, apiErr,
                    disp, loaders, afterFailed, ncalls, crashed, icuIdx,
                    infoVars >>

\* Back in the caller (tzdb.cpp:335-343, 428-435): below
\* __has_icu_addresses the call returns _Win_error, otherwise it goes on to
\* the backend.  The locals of the finished call are dropped.
AcquireReturn(t) ==
    /\ ~crashed /\ pc[t] = "acquired"
    /\ IF ret[t] < __has_icu_addresses
       THEN /\ apiErr' = [ apiErr EXCEPT ![t] = "_Win_error" ]
            /\ disp' = disp
       ELSE /\ apiErr' = apiErr
            /\ disp' = [ disp EXCEPT ![t] =
                   __icu_call(IF op[t] = "__std_tzdb_get_time_zones"
                              THEN "ucal_openTimeZoneIDEnumeration"
                              ELSE "ucal_getDefaultTimeZone") ]
    /\ pc' = [ pc EXCEPT ![t] = "idle" ]
    /\ Level' = [ Level EXCEPT ![t] = __not_set ]
    /\ Module' = [ Module EXCEPT ![t] = FALSE ]
    /\ Last_error' = [ Last_error EXCEPT ![t] = ERROR_SUCCESS ]
    /\ ret' = [ ret EXCEPT ![t] = __not_set ]
    /\ afterFailed' = [ afterFailed EXCEPT ![t] = FALSE ]
    /\ UNCHANGED << Api_level, Pfn, exported, op, symIdx, loaders, failedPub,
                    ncalls, crashed, icuIdx,
                    infoVars >>

\* The backend calls of __std_tzbd_get_sys_info, in the order in which they
\* are made for an instant outside daylight time: _Get_cal
\* (tzdb.cpp:253-254), _Get_sys_time (tzdb.cpp:267-301) and the deleter of
\* _Cal at the return.  In daylight time ucal_get is called once more, and
\* __std_tzbd_get_local_info may call _Get_sys_time a second time
\* (tzdb.cpp:512-513, 544-545): pointers that were read before.
_Info_calls ==
    << "ucal_open", "ucal_setMillis", "ucal_inDaylightTime", "ucal_get",
       "ucal_get", "ucal_getTimeZoneTransitionDate",
       "ucal_getTimeZoneTransitionDate", "ucal_getTimeZoneDisplayName",
       "ucal_close" >>

\* How the call has reached the backend so far, d being the latest call.
_Reached(before, d) == IF before = "called_unready" THEN before ELSE d

\* The backend call number k of the entry point thread t is in: the wrapper
\* reads its pointer and calls it (tzdb.cpp:108-170).  A null pointer is
\* undefined behaviour; the process dies, or the call comes back with
\* garbage and the entry point is taken to end with _Icu_error.
_Info_step(t, k) ==
    LET d == __icu_call(_Info_calls[k])
    IN  IF d = "null_call"
        THEN \E o \in NullCallOutcomes :
                 /\ crashed' = (o = "crash")
                 /\ apiErr' = [ apiErr EXCEPT ![t] = "_Icu_error" ]
                 /\ disp' = [ disp EXCEPT ![t] = d ]
                 /\ pc' = [ pc EXCEPT ![t] = "idle" ]
                 /\ icuIdx' = [ icuIdx EXCEPT ![t] = 1 ]
        ELSE /\ crashed' = crashed
             /\ apiErr' = [ apiErr EXCEPT ![t] = "_Success" ]
             /\ disp' = [ disp EXCEPT ![t] =
                            _Reached(IF k = 1 THEN "none" ELSE disp[t], d) ]
             /\ IF k = Len(_Info_calls)
                THEN /\ pc' = [ pc EXCEPT ![t] = "idle" ]
                     /\ icuIdx' = [ icuIdx EXCEPT ![t] = 1 ]
                ELSE /\ pc' = [ pc EXCEPT ![t] = "info" ]
                     /\ icuIdx' = [ icuIdx EXCEPT ![t] = k + 1 ]

\* A thread enters __std_tzbd_get_sys_info or __std_tzbd_get_local_info
\* (tzdb.cpp:456-468, 487-499): _Get_cal converts the name and calls
\* __icu_ucal_open (tzdb.cpp:245-254) without _Acquire_icu_functions().
CallInfo(t) ==
    /\ ~crashed /\ pc[t] = "idle" /\ ncalls < MaxCalls
    /\ \E f \in InfoFns : op' = [ op EXCEPT ![t] = f ]
    /\ ncalls' = ncalls + 1
    /\ _Info_step(t, 1)
    /\ UNCHANGED << Api_level, Pfn, exported, Level, Module, Last_error,
                    symIdx, ret, loaders, failedPub, afterFailed, infoVars >>

\* The next backend call of a thread inside __std_tzbd_get_sys_info or
\* __std_tzbd_get_local_info (tzdb.cpp:267-301); after the last one the
\* entry point returns.
InfoCall(t) ==
    /\ ~crashed /\ pc[t] = "info"
    /\ _Info_step(t, icuIdx[t])
    /\ UNCHANGED << Api_level, Pfn, exported, op, Level, Module, Last_error,
                    symIdx, ret, loaders, failedPub, afterFailed, ncalls,
                    infoVars >>

\* The steps of a thread that is inside a call.
Progress(t) ==
    \/ CasSucceeds(t)
    \/ CasFails(t)
    \/ LoadLibrary(t)
    \/ LoadAddress(t)
    \/ StoreLevel(t)
    \/ AcquireReturn(t)

Next ==
    \E t \in Threads :
        \/ CallAcquiring(t)
        \/ CallInfo(t)
        \/ InfoCall(t)
        \/ Progress(t)
        \/ CasSpurious(t)

Spec == Init /\ [][Next]_vars

\* Threads that only use the entry points that acquire the binding, each
\* thread inside a call being scheduled again (weak fairness); a spurious
\* failure of the weak compare-exchange changes nothing, so fairness of
\* Progress also says that it does not fail spuriously forever.
NextAcquire ==
    \E t \in Threads :
        \/ CallAcquiring(t)
        \/ Progress(t)
        \/ CasSpurious(t)

FairSpec ==
    Init /\ [][NextAcquire]_vars /\ \A t \in Threads : WF_vars(Progress(t))

----------------------------------------------------------------------------
(***************************************************************************)
(* The ICU calendar behind the function pointers, as an in-memory rule     *)
(* table.  Instants are UDate values (milliseconds); the transitions of    *)
(* the table lie within three weeks of the epoch.  A zone has its          *)
(* transition instants in increasing order and one rule more than it has   *)
(* transitions: rule i is in force from transition i-1 up to transition i. *)
(* A rule gives UCAL_ZONE_OFFSET (raw), UCAL_DST_OFFSET (dst) and what     *)
(* ucal_inDaylightTime answers (day).                                      *)
(***************************************************************************)
U_MILLIS_PER_DAY == 86400000
U_MILLIS_PER_HOUR == U_MILLIS_PER_DAY \div 24

\* U_DATE_MAX / U_DATE_MIN: the largest UDate and its negation, here beyond
\* every instant of the table and of the queries.
U_DATE_MAX == 2000000000
U_DATE_MIN == - U_DATE_MAX

Days(n) == n * U_MILLIS_PER_DAY
Hours(n) == n * U_MILLIS_PER_HOUR

Rule(raw, dst, day) == [ raw |-> raw, dst |-> dst, day |-> day ]

\* +10:00 / +11:00, daylight time beginning at 02:00 and ending at 03:00
\* local time (the Sydney namespace of the tests).
Sydney ==
    [ trans |-> << Days(5) + Hours(2) - Hours(10),
                   Days(12) + Hours(3) - Hours(11),
                   Days(19) + Hours(2) - Hours(10) >>,
      rules |-> << Rule(Hours(10), 0, FALSE), Rule(Hours(10), Hours(1), TRUE),
                   Rule(Hours(10), 0, FALSE), Rule(Hours(10), Hours(1), TRUE) >>,
      std |-> "GMT+10", dst |-> "GMT+11" ]

\* -08:00 / -07:00, both changes at 02:00 local time (the LA namespace of
\* the tests).
LosAngeles ==
    [ trans |-> << Days(5) + Hours(2) + Hours(8),
                   Days(12) + Hours(2) + Hours(7),
                   Days(19) + Hours(2) + Hours(8) >>,
      rules |-> << Rule(- Hours(8), 0, FALSE), Rule(- Hours(8), Hours(1), TRUE),
                   Rule(- Hours(8), 0, FALSE), Rule(- Hours(8), Hours(1), TRUE) >>,
      std |-> "PST", dst |-> "PDT" ]

\* A single rule for all time.
Utc ==
    [ trans |-> << >>,
      rules |-> << Rule(0, 0, FALSE) >>,
      std |-> "UTC", dst |-> "UTC" ]

\* A zone that no longer observes daylight time: ICU's inDaylightTime
\* answers FALSE for every instant of such a zone (useDaylightTime() is
\* false), also for the past summer whose UCAL_DST_OFFSET is one hour; the
\* zone later moves its standard offset from +03:00 to +04:00.
Moscow ==
    [ trans |-> << Days(6) - Hours(3), Days(13) - Hours(4), Days(18) >>,
      rules |-> << Rule(Hours(3), 0, FALSE), Rule(Hours(3), Hours(1), FALSE),
                   Rule(Hours(3), 0, FALSE), Rule(Hours(4), 0, FALSE) >>,
      std |-> "MSK", dst |-> "MSD" ]

ZoneNames ==
    { "Australia/Sydney", "America/Los_Angeles", "Etc/UTC", "Europe/Moscow" }

ZoneTable(name) ==
    CASE name = "Australia/Sydney" -> Sydney
      [] name = "America/Los_Angeles" -> LosAngeles
      [] name = "Europe/Moscow" -> Moscow
      [] OTHER -> Utc

Transitions(name) ==
    { ZoneTable(name).trans[i] : i \in 1..Len(ZoneTable(name).trans) }

\* The rule of the calendar's zone in force at the calendar's instant.
CalRule(cal) ==
    LET z == ZoneTable(cal.zone)
    IN  z.rules[1 + Cardinality({ i \in 1..Len(z.trans) : z.trans[i] <= cal.millis })]

ucal_inDaylightTime(cal) == CalRule(cal).day

ucal_get(cal, field) ==
    IF field = "UCAL_DST_OFFSET" THEN CalRule(cal).dst ELSE CalRule(cal).raw

\* ucal_getTimeZoneTransitionDate: the transition of the given type
\* relative to the calendar's instant, if there is one.
ucal_getTimeZoneTransitionDate(cal, type) ==
    LET tr == Transitions(cal.zone)
        c == CASE type = "UCAL_TZ_TRANSITION_NEXT" -> { x \in tr : x > cal.millis }
               [] type = "UCAL_TZ_TRANSITION_NEXT_INCLUSIVE" -> { x \in tr : x >= cal.millis }
               [] type = "UCAL_TZ_TRANSITION_PREVIOUS" -> { x \in tr : x < cal.millis }
               [] OTHER -> { x \in tr : x <= cal.millis }
        next == type \in { "UCAL_TZ_TRANSITION_NEXT", "UCAL_TZ_TRANSITION_NEXT_INCLUSIVE" }
    IN  IF c = {} THEN [ found |-> FALSE, date |-> 0 ]
        ELSE [ found |-> TRUE,
               date |-> IF next
                        THEN CHOOSE x \in c : \A y \in c : x <= y
                        ELSE CHOOSE x \in c : \A y \in c : x >= y ]

ucal_getTimeZoneDisplayName(cal, type) ==
    IF type = "UCAL_SHORT_DST" THEN ZoneTable(cal.zone).dst
    ELSE ZoneTable(cal.zone).std

----------------------------------------------------------------------------
(***************************************************************************)
(* The queries.  A query is run with at most one failing step, named by    *)
(* `f` ("none": no step fails); a failing ICU call sets its UErrorCode and *)
(* yields 0 / FALSE / nullptr.                                             *)
(***************************************************************************)
\* the null char pointer of an abbrev that was not allocated
nullptr == "nullptr"

\* a null UCalendar pointer
NullCal == [ null |-> TRUE, zone |-> "", millis |-> 0 ]

\* a value-initialised __std_tzdb_sys_data
NoData == [ begin |-> 0, end |-> 0, offset |-> 0, save |-> 0, abbrev |-> nullptr ]

\* The steps of _Get_cal and of _Get_sys_time that can fail.
CalSteps == { "narrow_to_wide", "alloc_wide", "ucal_open" }
SysSteps ==
    { "ucal_setMillis", "ucal_inDaylightTime", "get_save", "get_offset",
      "get_dst", "previous", "next", "display_name", "wide_to_narrow",
      "alloc_narrow" }

(***************************************************************************)
(* _Get_cal (tzdb.cpp:245-260): nullptr when the name cannot be converted  *)
(* (_Win_error) or allocated (_Err untouched), and when ucal_open fails    *)
(* (_Icu_error).                                                           *)
(***************************************************************************)
_Get_cal(_Tz, _Err, f) ==
    CASE f = "narrow_to_wide" -> [ cal |-> NullCal, Err |-> "_Win_error" ]
      [] f = "alloc_wide" -> [ cal |-> NullCal, Err |-> _Err ]
      [] f = "ucal_open" -> [ cal |-> NullCal, Err |-> "_Icu_error" ]
      [] OTHER -> [ cal |-> [ null |-> FALSE, zone |-> _Tz, millis |-> 0 ],
                    Err |-> _Err ]

\* The transition types _Get_sys_time asks for (tzdb.cpp:288, 294).
_Begin_type_exclusive == "UCAL_TZ_TRANSITION_PREVIOUS"

_Begin_type == "UCAL_TZ_TRANSITION_PREVIOUS_INCLUSIVE"

_End_type == "UCAL_TZ_TRANSITION_NEXT"

\* An ICU getter whose call fails yields 0 and sets the UErrorCode.
icu_get(cal, field, failed) == IF failed THEN 0 ELSE ucal_get(cal, field)

(***************************************************************************)
(* _Get_sys_time (tzdb.cpp:263-318), statement by statement.  The state    *)
(* threaded through the statements is [Data, Err, u, nomem]: _Data, _Err,  *)
(* U_FAILURE(_UErr), and whether the early return of line 307 is taken.    *)
(***************************************************************************)
\* 266-267: ucal_setMillis
_Sys_set_millis(_Data, _Err, f) ==
    [ Data |-> _Data, Err |-> _Err, u |-> (f = "ucal_setMillis"), nomem |-> FALSE ]

\* 269-280: offset and save, by ucal_inDaylightTime
_Sys_offset(s, cal, f) ==
    IF s.u THEN s
    ELSE IF f = "ucal_inDaylightTime" THEN [ s EXCEPT !.u = TRUE ]
    ELSE IF ucal_inDaylightTime(cal)
    THEN IF f = "get_save"
         THEN [ s EXCEPT !.Data.save = 0, !.u = TRUE ]
         ELSE [ s EXCEPT
                  !.Data.save = ucal_get(cal, "UCAL_DST_OFFSET"),
                  !.Data.offset = icu_get(cal, "UCAL_ZONE_OFFSET", f = "get_offset")
                                    + ucal_get(cal, "UCAL_DST_OFFSET"),
                  !.u = (f = "get_offset") ]
    ELSE [ s EXCEPT
             !.Data.offset = icu_get(cal, "UCAL_ZONE_OFFSET", f = "get_offset"),
             !.Data.save = 0,
             !.u = (f = "get_offset") ]

\* 282-284: save is read again, whatever ucal_inDaylightTime said
_Sys_save(s, cal, f) ==
    IF s.u THEN s
    ELSE [ s EXCEPT
             !.Data.save = icu_get(cal, "UCAL_DST_OFFSET", f = "get_dst"),
             !.u = (f = "get_dst") ]

\* 286-290: begin; tr is what ucal_getTimeZoneTransitionDate found
_Sys_begin(s, tr, failed) ==
    IF s.u THEN s
    ELSE IF failed \/ ~tr.found
    THEN [ s EXCEPT !.Data.begin = U_DATE_MIN, !.u = failed ]
    ELSE [ s EXCEPT !.Data.begin = tr.date ]

\* 292-296: end
_Sys_end(s, tr, failed) ==
    IF s.u THEN s
    ELSE IF failed \/ ~tr.found
    THEN [ s EXCEPT !.Data.end = U_DATE_MAX, !.u = failed ]
    ELSE [ s EXCEPT !.Data.end = tr.date ]

\* 298-310: abbrev, the standard or the daylight name by save == 0, through
\* _Allocate_wide_to_narrow (tzdb.cpp:187-214)
_Sys_abbrev(s, cal, f) ==
    IF s.u THEN s
    ELSE IF f = "display_name" THEN [ s EXCEPT !.u = TRUE ]
    ELSE IF f = "wide_to_narrow"
    THEN [ s EXCEPT !.Data.abbrev = nullptr, !.Err = "_Win_error" ]
    ELSE IF f = "alloc_narrow"
    THEN [ s EXCEPT !.Data.abbrev = nullptr, !.nomem = (s.Err = "_Success") ]
    ELSE [ s EXCEPT !.Data.abbrev =
               ucal_getTimeZoneDisplayName(cal,
                   IF s.Data.save = 0 THEN "UCAL_SHORT_STANDARD"
                   ELSE "UCAL_SHORT_DST") ]

\* 306-308, 312-317: what is returned
_Sys_return_ignores_uerr(s) ==
    IF s.nomem THEN [ ok |-> FALSE, Data |-> s.Data, Err |-> s.Err ]
    ELSE [ ok |-> TRUE, Data |-> s.Data, Err |-> s.Err ]

_Sys_return(s) ==
    IF s.nomem THEN [ ok |-> FALSE, Data |-> s.Data, Err |-> s.Err ]
    ELSE IF s.u THEN [ ok |-> FALSE, Data |-> s.Data, Err |-> "_Icu_error" ]
    ELSE [ ok |-> TRUE, Data |-> s.Data, Err |-> s.Err ]

\* The calendar after ucal_setMillis(_Cal, _Sys)
SetMillis(_Cal, _Sys) == [ _Cal EXCEPT !.millis = _Sys ]

_Get_sys_time(_Data, _Cal, _Sys, _Err, f) ==
    _Sys_return(
      _Sys_abbrev(
        _Sys_end(
          _Sys_begin(
            _Sys_save(
              _Sys_offset(_Sys_set_millis(_Data, _Err, f), SetMillis(_Cal, _Sys), f),
              SetMillis(_Cal, _Sys), f),
            ucal_getTimeZoneTransitionDate(SetMillis(_Cal, _Sys), _Begin_type),
            f = "previous"),
          ucal_getTimeZoneTransitionDate(SetMillis(_Cal, _Sys), _End_type),
          f = "next"),
        SetMillis(_Cal, _Sys), f))

\* a value-initialised __std_tzbd_sys_info, and the null pointer to one
NoSysInfo == [ null |-> FALSE, Err |-> "_Success", Data |-> NoData ]
NullSysInfo == [ NoSysInfo EXCEPT !.null = TRUE ]

\* a value-initialised __std_tzbd_local_info (local_info::unique is 0), and
\* the null pointer to one
NoLocalInfo ==
    [ null |-> FALSE, Err |-> "_Success", Result |-> "unique",
      First |-> NoData, Second |-> NoData ]
NullLocalInfo == [ NoLocalInfo EXCEPT !.null = TRUE ]

\* What an entry point returns when a step failed (tzdb.cpp:470, 474, 501,
\* 505, 513, 545): the info with its error, or nullptr when no error was set.
Released(info, null) == IF info.Err # "_Success" THEN info ELSE null

(***************************************************************************)
(* __std_tzbd_get_sys_info (tzdb.cpp:456-478).                             *)
(***************************************************************************)
\* 473-477: r is what _Get_sys_time returned
_Sys_info_result(r) ==
    IF ~r.ok
    THEN Released([ NoSysInfo EXCEPT !.Err = r.Err, !.Data = r.Data ], NullSysInfo)
    ELSE [ NoSysInfo EXCEPT !.Err = r.Err, !.Data = r.Data ]

\* 468-477: c is what _Get_cal returned
_Sys_info_with_cal(c, _Sys, f) ==
    IF c.cal.null
    THEN Released([ NoSysInfo EXCEPT !.Err = c.Err ], NullSysInfo)
    ELSE _Sys_info_result(_Get_sys_time(NoData, c.cal, _Sys, c.Err, f))

__std_tzbd_get_sys_info(_Tz, _Sys, f) ==
    IF f = "alloc_info" THEN NullSysInfo
    ELSE _Sys_info_with_cal(_Get_cal(_Tz, "_Success", f), _Sys, f)

(***************************************************************************)
(* __std_tzbd_get_local_info, the two classifications (tzdb.cpp:516-541    *)
(* and 548-571): the result and whether _First and _Second are swapped.    *)
(***************************************************************************)
_Classify_begin_inclusive(_Curr_sys, _Prev_sys, _Transition) ==
    IF _Curr_sys >= _Transition
    THEN IF _Prev_sys <= _Transition
         THEN [ Result |-> "ambiguous", swap |-> TRUE ]
         ELSE [ Result |-> "unique", swap |-> FALSE ]
    ELSE IF _Prev_sys >= _Transition
         THEN [ Result |-> "nonexistent", swap |-> TRUE ]
         ELSE [ Result |-> "unique", swap |-> TRUE ]

_Classify_begin_unique_first(_Curr_sys, _Prev_sys, _Transition) ==
    IF _Curr_sys >= _Transition
    THEN IF _Prev_sys < _Transition
         THEN [ Result |-> "ambiguous", swap |-> TRUE ]
         ELSE [ Result |-> "unique", swap |-> FALSE ]
    ELSE IF _Prev_sys >= _Transition
         THEN [ Result |-> "nonexistent", swap |-> TRUE ]
         ELSE [ Result |-> "unique", swap |-> FALSE ]

_Classify_begin_no_swap(_Curr_sys, _Prev_sys, _Transition) ==
    IF _Curr_sys >= _Transition
    THEN IF _Prev_sys < _Transition
         THEN [ Result |-> "ambiguous", swap |-> FALSE ]
         ELSE [ Result |-> "unique", swap |-> FALSE ]
    ELSE IF _Prev_sys >= _Transition
         THEN [ Result |-> "nonexistent", swap |-> FALSE ]
         ELSE [ Result |-> "unique", swap |-> TRUE ]

_Classify_begin(_Curr_sys, _Prev_sys, _Transition) ==
    IF _Curr_sys >= _Transition
    THEN IF _Prev_sys < _Transition
         THEN [ Result |-> "ambiguous", swap |-> TRUE ]
         ELSE [ Result |-> "unique", swap |-> FALSE ]
    ELSE IF _Prev_sys >= _Transition
         THEN [ Result |-> "nonexistent", swap |-> TRUE ]
         ELSE [ Result |-> "unique", swap |-> TRUE ]

_Classify_end_no_swap(_Curr_sys, _Next_sys, _Transition) ==
    IF _Curr_sys < _Transition
    THEN IF _Next_sys >= _Transition
         THEN [ Result |-> "ambiguous", swap |-> FALSE ]
         ELSE [ Result |-> "unique", swap |-> FALSE ]
    ELSE IF _Next_sys < _Transition
         THEN [ Result |-> "nonexistent", swap |-> FALSE ]
         ELSE [ Result |-> "unique", swap |-> FALSE ]

_Classify_end(_Curr_sys, _Next_sys, _Transition) ==
    IF _Curr_sys < _Transition
    THEN IF _Next_sys >= _Transition
         THEN [ Result |-> "ambiguous", swap |-> FALSE ]
         ELSE [ Result |-> "unique", swap |-> FALSE ]
    ELSE IF _Next_sys < _Transition
         THEN [ Result |-> "nonexistent", swap |-> FALSE ]
         ELSE [ Result |-> "unique", swap |-> TRUE ]

(***************************************************************************)
(* __std_tzbd_get_local_info (tzdb.cpp:487-578).  f fails a step of        *)
(* _Get_cal or of the first _Get_sys_time, f2 a step of the second.        *)
(***************************************************************************)
\* 509
_Curr_sys_plus(i, _Local) == _Local + i.First.offset

_Curr_sys(i, _Local) == _Local - i.First.offset

\* 510: within a day of the start of _First
_Near_begin_two_days(i, _Local) ==
    /\ i.First.begin # U_DATE_MIN
    /\ _Curr_sys(i, _Local) < i.First.begin + 2 * U_MILLIS_PER_DAY

_Near_begin(i, _Local) ==
    /\ i.First.begin # U_DATE_MIN
    /\ _Curr_sys(i, _Local) < i.First.begin + U_MILLIS_PER_DAY

\* 542: within a day of the end of _First
_Near_end_hour(i, _Local) ==
    /\ i.First.end # U_DATE_MAX
    /\ _Curr_sys(i, _Local) > i.First.end - U_MILLIS_PER_HOUR

_Near_end(i, _Local) ==
    /\ i.First.end # U_DATE_MAX
    /\ _Curr_sys(i, _Local) > i.First.end - U_MILLIS_PER_DAY

\* 522-539, 554-569: the result is stored, _First and _Second swapped
_Local_classified_no_swap(i, k) == [ i EXCEPT !.Result = k.Result ]

_Local_classified(i, k) ==
    IF k.swap
    THEN [ i EXCEPT !.Result = k.Result, !.First = i.Second, !.Second = i.First ]
    ELSE [ i EXCEPT !.Result = k.Result ]

\* 512-541: r is what _Get_sys_time(_Second, ..., _First.begin - 1) returned
_Local_begin_plus(i, r, _Local) ==
    IF ~r.ok
    THEN Released([ i EXCEPT !.Err = r.Err, !.Second = r.Data ], NullLocalInfo)
    ELSE _Local_classified(
             [ i EXCEPT !.Err = r.Err, !.Second = r.Data ],
             _Classify_begin(_Curr_sys(i, _Local), _Local + r.Data.offset,
                             i.First.begin))

_Local_begin(i, r, _Local) ==
    IF ~r.ok
    THEN Released([ i EXCEPT !.Err = r.Err, !.Second = r.Data ], NullLocalInfo)
    ELSE _Local_classified(
             [ i EXCEPT !.Err = r.Err, !.Second = r.Data ],
             _Classify_begin(_Curr_sys(i, _Local), _Local - r.Data.offset,
                             i.First.begin))

\* 544-571: r is what _Get_sys_time(_Second, ..., _First.end + 1) returned
_Local_end(i, r, _Local) ==
    IF ~r.ok
    THEN Released([ i EXCEPT !.Err = r.Err, !.Second = r.Data ], NullLocalInfo)
    ELSE _Local_classified(
             [ i EXCEPT !.Err = r.Err, !.Second = r.Data ],
             _Classify_end(_Curr_sys(i, _Local), _Local - r.Data.offset,
                           i.First.end))

\* 509-575: i is the info with _First filled in
_Local_near(i, cal, _Local, f2) ==
    IF _Near_begin(i, _Local)
    THEN _Local_begin(i, _Get_sys_time(NoData, cal, i.First.begin - 1, i.Err, f2),
                      _Local)
    ELSE IF _Near_end(i, _Local)
    THEN _Local_end(i, _Get_sys_time(NoData, cal, i.First.end + 1, i.Err, f2),
                    _Local)
    ELSE [ i EXCEPT !.Result = "unique" ]

\* 504-506: r is what _Get_sys_time(_First, ..., _Local) returned
_Local_first(r, cal, _Local, f2) ==
    IF ~r.ok
    THEN Released([ NoLocalInfo EXCEPT !.Err = r.Err, !.First = r.Data ],
                  NullLocalInfo)
    ELSE _Local_near([ NoLocalInfo EXCEPT !.Err = r.Err, !.First = r.Data ],
                     cal, _Local, f2)

\* 499-506: c is what _Get_cal returned
_Local_with_cal(c, _Local, f, f2) ==
    IF c.cal.null
    THEN Released([ NoLocalInfo EXCEPT !.Err = c.Err ], NullLocalInfo)
    ELSE _Local_first(_Get_sys_time(NoData, c.cal, _Local, c.Err, f),
                      c.cal, _Local, f2)

__std_tzbd_get_local_info(_Tz, _Local, f, f2) ==
    IF f = "alloc_info" THEN NullLocalInfo
    ELSE _Local_with_cal(_Get_cal(_Tz, "_Success", f), _Local, f, f2)

\* The instants __std_tzbd_get_local_info passes to _Get_sys_time for
\* _Second (512-513, 544-545), in the order of the calls.
_Second_instants(i, _Local) ==
    IF _Near_begin(i, _Local) THEN << i.First.begin - 1 >>
    ELSE IF _Near_end(i, _Local) THEN << i.First.end + 1 >>
    ELSE << >>

_Local_asked_first(r, _Local) ==
    IF ~r.ok THEN << >>
    ELSE _Second_instants([ NoLocalInfo EXCEPT !.First = r.Data ], _Local)

_Local_asked_with_cal(c, _Local, f) ==
    IF c.cal.null THEN << >>
    ELSE _Local_asked_first(_Get_sys_time(NoData, c.cal, _Local, c.Err, f),
                            _Local)

_Local_asked(_Tz, _Local, f) ==
    IF f = "alloc_info" THEN << >>
    ELSE _Local_asked_with_cal(_Get_cal(_Tz, "_Success", f), _Local, f)

----------------------------------------------------------------------------
(***************************************************************************)
(* time_zone::to_sys and time_zone::to_local, on top of the two queries.   *)
(* A result is the instant returned, or the exception thrown.              *)
(***************************************************************************)
Policies == { "strict", "earliest", "latest" }

Returned(sys) == [ thrown |-> "none", sys |-> sys ]
Thrown(what) == [ thrown |-> what, sys |-> 0 ]

\* to_sys(L, choose) and the strict to_sys(L), given the local_info of L
to_sys_latest_first(info, L, policy) ==
    CASE info.Result = "unique" -> Returned(L - info.First.offset)
      [] info.Result = "ambiguous" ->
            IF policy = "strict" THEN Thrown("ambiguous_local_time")
            ELSE IF policy = "earliest" THEN Returned(L - info.Second.offset)
            ELSE Returned(L - info.First.offset)
      [] OTHER ->
            IF policy = "strict" THEN Thrown("nonexistent_local_time")
            ELSE Returned(info.First.end)

to_sys_lenient(info, L, policy) ==
    CASE info.Result = "unique" -> Returned(L - info.First.offset)
      [] info.Result = "ambiguous" ->
            IF policy = "latest" THEN Returned(L - info.Second.offset)
            ELSE Returned(L - info.First.offset)
      [] OTHER -> Returned(info.First.end)

to_sys(info, L, policy) ==
    CASE info.Result = "unique" -> Returned(L - info.First.offset)
      [] info.Result = "ambiguous" ->
            IF policy = "strict" THEN Thrown("ambiguous_local_time")
            ELSE IF policy = "earliest" THEN Returned(L - info.First.offset)
            ELSE Returned(L - info.Second.offset)
      [] OTHER ->
            IF policy = "strict" THEN Thrown("nonexistent_local_time")
            ELSE Returned(info.First.end)

\* to_local(sys) = sys + get_info(sys).offset
to_local(z, sys) == sys + __std_tzbd_get_sys_info(z, sys, "none").Data.offset

----------------------------------------------------------------------------
(***************************************************************************)
(* SpecInfo: one query, its input drawn from the zones of the table, the   *)
(* instants within MaxHours hours (to the millisecond before and after) of *)
(* a transition, and the steps that can fail.  The binding has been        *)
(* initialised.                                                            *)
(***************************************************************************)
Offsets ==
    { Hours(h) + e : h \in (- MaxHours)..MaxHours, e \in {-1, 0, 1} }

Instants(name) ==
    { b + d : b \in Transitions(name) \cup {0}, d \in Offsets }

\* The entry points and to_sys, which calls __std_tzbd_get_local_info.
QueryFns == InfoFns \cup { "to_sys" }

FirstFailures == { "none", "alloc_info" } \cup CalSteps \cup SysSteps
SecondFailures == { "none" } \cup SysSteps

\* The query: either entry point with a failing step of _Get_cal or of the
\* first _Get_sys_time, or __std_tzbd_get_local_info with a failing step
\* of the second _Get_sys_time.

InitInfo ==
    /\ Api_level = __has_icu_addresses
    /\ Pfn = AllSymbols
    /\ exported = AllSymbols
    /\ pc = [ t \in Threads |-> "idle" ]
    /\ op = [ t \in Threads |-> "none" ]
    /\ Level = [ t \in Threads |-> __not_set ]
    /\ Module = [ t \in Threads |-> FALSE ]
    /\ Last_error = [ t \in Threads |-> ERROR_SUCCESS ]
    /\ symIdx = [ t \in Threads |-> 1 ]
    /\ icuIdx = [ t \in Threads |-> 1 ]
    /\ ret = [ t \in Threads |-> __not_set ]
    /\ apiErr = [ t \in Threads |-> "_Success" ]
    /\ disp = [ t \in Threads |-> "none" ]
    /\ loaders = {}
    /\ failedPub = FALSE
    /\ afterFailed = [ t \in Threads |-> FALSE ]
    /\ ncalls = 0
    /\ crashed = FALSE
    /\ \E fn \in QueryFns, z \in ZoneNames :
         \E t \in Instants(z) :
           \E ff \in (FirstFailures \X {"none"}) \cup ({"none"} \X SecondFailures) :
             \E policy \in Policies \cup {"none"} :
               /\ fn = "__std_tzbd_get_sys_info" => ff[2] = "none"
               /\ fn = "to_sys" => ff = << "none", "none" >>
               /\ fn = "to_sys" <=> policy # "none"
               /\ query = [ fn |-> fn, tz |-> z, t |-> t, f |-> ff[1],
                            f2 |-> ff[2], policy |-> policy ]
    /\ answer = NoAnswer

AskSysInfo ==
    /\ answer = NoAnswer
    /\ query.fn = "__std_tzbd_get_sys_info"
    /\ answer' = [ fn |-> query.fn,
                   info |-> __std_tzbd_get_sys_info(query.tz, query.t, query.f) ]
    /\ UNCHANGED << bindVars, query >>

AskLocalInfo ==
    /\ answer = NoAnswer
    /\ query.fn = "__std_tzbd_get_local_info"
    /\ answer' = [ fn |-> query.fn,
                   info |-> __std_tzbd_get_local_info(query.tz, query.t,
                                                      query.f, query.f2),
                   asked |-> _Local_asked(query.tz, query.t, query.f) ]
    /\ UNCHANGED << bindVars, query >>

\* to_sys: the local_info of the local time, then the choice.
ToSysAnswer(info, L, policy) ==
    [ fn |-> "to_sys", info |-> info, result |-> to_sys(info, L, policy) ]

AskToSys ==
    /\ answer = NoAnswer
    /\ query.fn = "to_sys"
    /\ answer' = ToSysAnswer(__std_tzbd_get_local_info(query.tz, query.t,
                                                       query.f, query.f2),
                             query.t, query.policy)
    /\ UNCHANGED << bindVars, query >>

NextInfo == AskSysInfo \/ AskLocalInfo \/ AskToSys

SpecInfo == InitInfo /\ [][NextInfo]_vars

----------------------------------------------------------------------------
(***************************************************************************)
(* The registry build, __std_tzdb_get_time_zones (tzdb.cpp:324-395).  The  *)
(* backend's canonical enumeration is a sequence of distinct ids; `f`      *)
(* names the one step that fails, if any, and for a step of the loop the   *)
(* index of the iteration.                                                 *)
(***************************************************************************)
\* _Known_links (tzdb.cpp:179-185)
_Known_links ==
    << [ _Target |-> "Pacific/Auckland", _Name |-> "Antarctica/McMurdo" ],
       [ _Target |-> "Africa/Maputo", _Name |-> "Africa/Lusaka" ] >>

\* The _Name and the _Target entries of the table.
AliasNames == { _Known_links[i]._Name : i \in 1..Len(_Known_links) }
TargetNames == { _Known_links[i]._Target : i \in 1..Len(_Known_links) }

\* 387-391: the target stored in _Links[_Name_idx], nullptr if the name is
\* not the _Name of a known link
_Link_target_by_target(name) ==
    IF \E i \in 1..Len(_Known_links) : _Known_links[i]._Target = name
    THEN _Known_links[CHOOSE i \in 1..Len(_Known_links) :
                          _Known_links[i]._Target = name]._Target
    ELSE nullptr

_Link_target(name) ==
    IF \E i \in 1..Len(_Known_links) : _Known_links[i]._Name = name
    THEN _Known_links[CHOOSE i \in 1..Len(_Known_links) :
                          /\ _Known_links[i]._Name = name
                          /\ \A j \in (i + 1)..Len(_Known_links) :
                                 _Known_links[j]._Name # name]._Target
    ELSE nullptr

\* a value-initialised __std_tzdb_time_zones_info, and the null pointer
NoZonesInfo ==
    [ null |-> FALSE, Err |-> "_Success", _Num_time_zones |-> 0,
      _Names |-> << >>, _Links |-> << >> ]
NullZonesInfo == [ NoZonesInfo EXCEPT !.null = TRUE ]

NoFailure == [ step |-> "none", idx |-> 0 ]

\* 373-392: the loop from iteration idx on
RECURSIVE _Names_loop(_, _, _, _)
_Names_loop_skip_unext(info, ids, idx, f) ==
    IF idx > info._Num_time_zones THEN info
    ELSE IF f.idx = idx /\ f.step = "uenum_unext"
    THEN _Names_loop(info, ids, idx + 1, f)
    ELSE IF f.idx = idx /\ f.step = "wide_to_narrow"
    THEN [ info EXCEPT !.Err = "_Win_error" ]
    ELSE IF f.idx = idx /\ f.step = "alloc_narrow"
    THEN Released(info, NullZonesInfo)
    ELSE _Names_loop([ info EXCEPT !._Names[idx] = ids[idx],
                                   !._Links[idx] = _Link_target(ids[idx]) ],
                     ids, idx + 1, f)

_Names_loop(info, ids, idx, f) ==
    IF idx > info._Num_time_zones THEN info
    ELSE IF f.idx = idx /\ f.step = "uenum_unext"
    THEN [ info EXCEPT !.Err = "_Icu_error" ]
    ELSE IF f.idx = idx /\ f.step = "wide_to_narrow"
    THEN [ info EXCEPT !.Err = "_Win_error" ]
    ELSE IF f.idx = idx /\ f.step = "alloc_narrow"
    THEN Released(info, NullZonesInfo)
    ELSE _Names_loop([ info EXCEPT !._Names[idx] = ids[idx],
                                   !._Links[idx] = _Link_target(ids[idx]) ],
                     ids, idx + 1, f)

\* 357-371: the two arrays, allocated and filled with nullptr
_Allocated(n) ==
    [ NoZonesInfo EXCEPT !._Num_time_zones = n,
                         !._Names = [ i \in 1..n |-> nullptr ],
                         !._Links = [ i \in 1..n |-> nullptr ] ]

\* level is what _Acquire_icu_functions returned
__std_tzdb_get_time_zones(level, ids, f) ==
    IF f.step = "alloc_info" THEN NullZonesInfo
    ELSE IF level < __has_icu_addresses
    THEN [ NoZonesInfo EXCEPT !.Err = "_Win_error" ]
    ELSE IF f.step \in { "open_enum", "uenum_count" }
    THEN [ NoZonesInfo EXCEPT !.Err = "_Icu_error" ]
    ELSE IF f.step \in { "alloc_names", "alloc_links" } THEN NullZonesInfo
    ELSE _Names_loop(_Allocated(Len(ids)), ids, 1, f)

(***************************************************************************)
(* The snapshot built from a successful enumeration, and locate_zone on    *)
(* it.  A zone handle is the position of the zone in the snapshot's zones; *)
(* 0 is the null handle.                                                   *)
(***************************************************************************)
IsZoneSlot(info, i) == info._Links[i] = nullptr

_Tzdb_build(info) ==
    [ zones |-> SelectSeq(info._Names,
                          LAMBDA n : \E i \in 1..info._Num_time_zones :
                                        info._Names[i] = n /\ IsZoneSlot(info, i)),
      links |-> { [ name |-> info._Names[i], target |-> info._Links[i] ] :
                    i \in { j \in 1..info._Num_time_zones : ~IsZoneSlot(info, j) } } ]

\* exact match of a name against the zones
ZoneHandle(db, name) ==
    IF \E h \in 1..Len(db.zones) : db.zones[h] = name
    THEN CHOOSE h \in 1..Len(db.zones) : db.zones[h] = name
    ELSE 0

locate_zone(db, name) ==
    IF ZoneHandle(db, name) # 0 THEN ZoneHandle(db, name)
    ELSE IF \E l \in db.links : l.name = name
    THEN ZoneHandle(db, (CHOOSE l \in db.links : l.name = name).target)
    ELSE 0

\* time_zone::name of a handle that is not null
ZoneName(db, h) == db.zones[h]

(***************************************************************************)
(* SpecReg: one registry build on a binding whose level is settled, then   *)
(* lookups on the snapshot.  The backend enumerates any distinct ids: the   *)
(* target of an alias it enumerates need not be among them.                *)
(***************************************************************************)
CanonicalIds ==
    { "Pacific/Auckland", "Antarctica/McMurdo", "Africa/Maputo",
      "Africa/Lusaka", "Etc/UTC" }

LookupNames == CanonicalIds \cup { "Non/Existent" }

Enumerations ==
    { ids \in UNION { [ 1..n -> CanonicalIds ] : n \in 0..MaxIds } :
        \A i, j \in 1..Len(ids) : ids[i] = ids[j] => i = j }

RegFailures(n) ==
    { [ step |-> st, idx |-> 0 ] :
        st \in { "none", "alloc_info", "open_enum", "uenum_count",
                 "alloc_names", "alloc_links" } }
      \cup { [ step |-> st, idx |-> i ] :
               st \in { "uenum_unext", "wide_to_narrow", "alloc_narrow" },
               i \in 1..n }

InitReg ==
    /\ Api_level \in { __has_failed, __has_icu_addresses }
    /\ Pfn = IF Api_level = __has_icu_addresses THEN AllSymbols ELSE {}
    /\ exported = AllSymbols
    /\ pc = [ t \in Threads |-> "idle" ]
    /\ op = [ t \in Threads |-> "none" ]
    /\ Level = [ t \in Threads |-> __not_set ]
    /\ Module = [ t \in Threads |-> FALSE ]
    /\ Last_error = [ t \in Threads |-> ERROR_SUCCESS ]
    /\ symIdx = [ t \in Threads |-> 1 ]
    /\ icuIdx = [ t \in Threads |-> 1 ]
    /\ ret = [ t \in Threads |-> __not_set ]
    /\ apiErr = [ t \in Threads |-> "_Success" ]
    /\ disp = [ t \in Threads |-> "none" ]
    /\ loaders = {}
    /\ failedPub = (Api_level = __has_failed)
    /\ afterFailed = [ t \in Threads |-> FALSE ]
    /\ ncalls = 0
    /\ crashed = FALSE
    /\ \E ids \in Enumerations :
         \E f \in RegFailures(Len(ids)) :
             query = [ fn |-> "__std_tzdb_get_time_zones", ids |-> ids, f |-> f ]
    /\ answer = NoAnswer

AskTimeZones ==
    /\ answer = NoAnswer
    /\ query.fn = "__std_tzdb_get_time_zones"
    /\ answer' = [ fn |-> query.fn,
                   info |-> __std_tzdb_get_time_zones(Api_level, query.ids, query.f) ]
    /\ UNCHANGED << bindVars, query >>

\* The snapshot is built from an enumeration that succeeded.
BuildTzdb ==
    /\ answer.fn = "__std_tzdb_get_time_zones"
    /\ ~answer.info.null
    /\ answer.info.Err = "_Success"
    /\ answer' = [ fn |-> "tzdb", info |-> answer.info,
                   db |-> _Tzdb_build(answer.info), lookups |-> << >> ]
    /\ UNCHANGED << bindVars, query >>

LocateZone ==
    /\ answer.fn = "tzdb"
    /\ Len(answer.lookups) < MaxLookups
    /\ \E name \in LookupNames :
         answer' = [ answer EXCEPT !.lookups =
                       Append(@, [ name |-> name,
                                   handle |-> locate_zone(answer.db, name) ]) ]
    /\ UNCHANGED << bindVars, query >>

NextReg == AskTimeZones \/ BuildTzdb \/ LocateZone

SpecReg == InitReg /\ [][NextReg]_vars

----------------------------------------------------------------------------
(***************************************************************************)
(* __std_tzdb_get_reg_leap_seconds (tzdb.cpp:589-633).  The registry is    *)
(* the outcome of RegOpenKeyExW, the status and byte size the first        *)
(* RegQueryValueExW gives, whether the array can be allocated and the      *)
(* status of the second RegQueryValueExW.                                  *)
(***************************************************************************)
ERROR_MORE_DATA == 234
ERROR_FILE_NOT_FOUND == 2

\* sizeof(__std_tzdb_registry_leap_info)
LeapInfoSize == 12

RegStatuses == { ERROR_SUCCESS, ERROR_MORE_DATA, ERROR_FILE_NOT_FOUND }

\* What the call returns: *current_reg_ls_size, whether reg_ls_data is
\* nullptr, and the status given to SetLastError (ERROR_SUCCESS: not called).
LeapResult(size, null, status) ==
    [ current_reg_ls_size |-> size, null |-> null, last_error |-> status ]

\* 614-625: the array is read when the size query worked and there are more
\* entries than the caller has
_Leap_read_keeps_size(prev, ls_size, status, alloc, status2) ==
    IF status \in { ERROR_SUCCESS, ERROR_MORE_DATA } /\ ls_size > prev
    THEN IF ~alloc THEN LeapResult(ls_size, TRUE, status)
         ELSE LeapResult(ls_size, FALSE, status2)
    ELSE LeapResult(ls_size, TRUE, status)

_Leap_read(prev, ls_size, status, alloc, status2) ==
    IF status \in { ERROR_SUCCESS, ERROR_MORE_DATA } /\ ls_size > prev
    THEN IF ~alloc THEN LeapResult(ls_size, TRUE, status)
         ELSE LeapResult(IF status2 # ERROR_SUCCESS THEN 0 ELSE ls_size,
                         FALSE, status2)
    ELSE LeapResult(ls_size, TRUE, status)

__std_tzdb_get_reg_leap_seconds(prev_reg_ls_size, reg) ==
    IF reg.open # ERROR_SUCCESS THEN LeapResult(0, TRUE, ERROR_SUCCESS)
    ELSE _Leap_read(prev_reg_ls_size, reg.byte_size \div LeapInfoSize,
                    reg.status, reg.alloc, reg.status2)

(***************************************************************************)
(* SpecLeap: one fetch of the leap seconds.                                *)
(***************************************************************************)
Registries ==
    [ open : { ERROR_SUCCESS, ERROR_FILE_NOT_FOUND },
      status : RegStatuses,
      byte_size : 0..(LeapInfoSize * MaxLeap + 1),
      alloc : BOOLEAN,
      status2 : RegStatuses ]

InitLeap ==
    /\ Api_level = __not_set
    /\ Pfn = {}
    /\ exported = AllSymbols
    /\ pc = [ t \in Threads |-> "idle" ]
    /\ op = [ t \in Threads |-> "none" ]
    /\ Level = [ t \in Threads |-> __not_set ]
    /\ Module = [ t \in Threads |-> FALSE ]
    /\ Last_error = [ t \in Threads |-> ERROR_SUCCESS ]
    /\ symIdx = [ t \in Threads |-> 1 ]
    /\ icuIdx = [ t \in Threads |-> 1 ]
    /\ ret = [ t \in Threads |-> __not_set ]
    /\ apiErr = [ t \in Threads |-> "_Success" ]
    /\ disp = [ t \in Threads |-> "none" ]
    /\ loaders = {}
    /\ failedPub = FALSE
    /\ afterFailed = [ t \in Threads |-> FALSE ]
    /\ ncalls = 0
    /\ crashed = FALSE
    /\ \E prev \in 0..MaxLeap, reg \in Registries :
         query = [ fn |-> "__std_tzdb_get_reg_leap_seconds",
                   prev_reg_ls_size |-> prev, reg |-> reg ]
    /\ answer = NoAnswer

AskLeapSeconds ==
    /\ answer = NoAnswer
    /\ query.fn = "__std_tzdb_get_reg_leap_seconds"
    /\ answer' = [ fn |-> query.fn,
                   result |-> __std_tzdb_get_reg_leap_seconds(
                                  query.prev_reg_ls_size, query.reg) ]
    /\ UNCHANGED << bindVars, query >>

NextLeap == AskLeapSeconds

SpecLeap == InitLeap /\ [][NextLeap]_vars

----------------------------------------------------------------------------
(***************************************************************************)
(* The tzdb_list: get_tzdb, reload_tzdb and a reader.  `answer` holds the  *)
(* list: history (most recent first), the snapshot reload_tzdb is building *)
(* (not yet in the list), what the reader holds (a snapshot and a zone     *)
(* handle of it) and the version of the snapshot the last reload_tzdb      *)
(* returned.  reload_tzdb returns the front when the remote database has   *)
(* not changed.                                                            *)
(***************************************************************************)
\* The enumerations of the successive versions of the database.
SnapshotIds ==
    { << "Etc/UTC" >>, << "Africa/Maputo", "Africa/Lusaka", "Etc/UTC" >> }

NoSnapshot == [ version |-> 0 ]

\* A snapshot under construction: nothing, then its zones, then its links.
NewSnapshot(version, ids) ==
    [ version |-> version,
      info |-> __std_tzdb_get_time_zones(__has_icu_addresses, ids, NoFailure),
      zones |-> << >>, links |-> {}, complete |-> FALSE ]

WithZones(b) == [ b EXCEPT !.zones = _Tzdb_build(b.info).zones ]
WithLinks(b) ==
    [ b EXCEPT !.links = _Tzdb_build(b.info).links, !.complete = TRUE ]

\* reload_tzdb publishes the snapshot it built only when it is complete
_Ready_to_publish_early(b) == b # NoSnapshot

_Ready_to_publish(b) == b # NoSnapshot /\ b.complete

\* the list after the publish: the new snapshot in front of the older ones
_Publish_in_place(history, b) == << b >> \o Tail(history)

_Publish(history, b) == << b >> \o history

InitHist ==
    /\ Api_level = __has_icu_addresses
    /\ Pfn = AllSymbols
    /\ exported = AllSymbols
    /\ pc = [ t \in Threads |-> "idle" ]
    /\ op = [ t \in Threads |-> "none" ]
    /\ Level = [ t \in Threads |-> __not_set ]
    /\ Module = [ t \in Threads |-> FALSE ]
    /\ Last_error = [ t \in Threads |-> ERROR_SUCCESS ]
    /\ symIdx = [ t \in Threads |-> 1 ]
    /\ icuIdx = [ t \in Threads |-> 1 ]
    /\ ret = [ t \in Threads |-> __not_set ]
    /\ apiErr = [ t \in Threads |-> "_Success" ]
    /\ disp = [ t \in Threads |-> "none" ]
    /\ loaders = {}
    /\ failedPub = FALSE
    /\ afterFailed = [ t \in Threads |-> FALSE ]
    /\ ncalls = 0
    /\ crashed = FALSE
    /\ query = [ fn |-> "reload_tzdb" ]
    /\ \E ids \in SnapshotIds :
         answer = [ fn |-> "tzdb_list",
                    history |-> << WithLinks(WithZones(NewSnapshot(1, ids))) >>,
                    building |-> NoSnapshot,
                    held |-> NoSnapshot,
                    handle |-> 0,
                    returned |-> 0 ]

\* reload_tzdb finds a new version of the database and starts a snapshot
ReloadBegin ==
    /\ answer.fn = "tzdb_list"
    /\ answer.building = NoSnapshot
    /\ Len(answer.history) < MaxSnapshots
    /\ \E ids \in SnapshotIds :
         answer' = [ answer EXCEPT
                       !.building = NewSnapshot(Len(answer.history) + 1, ids),
                       !.returned = 0 ]
    /\ UNCHANGED << bindVars, query >>

\* reload_tzdb finds the database unchanged and returns the front
ReloadUnchanged ==
    /\ answer.fn = "tzdb_list"
    /\ answer.building = NoSnapshot
    /\ answer' = [ answer EXCEPT !.returned = answer.history[1].version ]
    /\ UNCHANGED << bindVars, query >>

ReloadBuildZones ==
    /\ answer.fn = "tzdb_list"
    /\ answer.building # NoSnapshot
    /\ answer.building.zones = << >>
    /\ answer' = [ answer EXCEPT !.building = WithZones(@) ]
    /\ UNCHANGED << bindVars, query >>

ReloadBuildLinks ==
    /\ answer.fn = "tzdb_list"
    /\ answer.building # NoSnapshot
    /\ answer.building.zones # << >>
    /\ ~answer.building.complete
    /\ answer' = [ answer EXCEPT !.building = WithLinks(@) ]
    /\ UNCHANGED << bindVars, query >>

\* the single publish, and the return of reload_tzdb
ReloadPublish ==
    /\ answer.fn = "tzdb_list"
    /\ _Ready_to_publish(answer.building)
    /\ answer' = [ answer EXCEPT
                     !.history = _Publish(@, answer.building),
                     !.building = NoSnapshot,
                     !.returned = answer.building.version ]
    /\ UNCHANGED << bindVars, query >>

\* the reader: get_tzdb() and locate_zone on it, at any moment
ReaderGet ==
    /\ answer.fn = "tzdb_list"
    /\ \E name \in { "Etc/UTC", "Africa/Lusaka" } :
         answer' = [ answer EXCEPT
                       !.held = answer.history[1],
                       !.handle = locate_zone(answer.history[1], name) ]
    /\ UNCHANGED << bindVars, query >>

NextHist ==
    \/ ReloadBegin
    \/ ReloadUnchanged
    \/ ReloadBuildZones
    \/ ReloadBuildLinks
    \/ ReloadPublish
    \/ ReaderGet

SpecHist == InitHist /\ [][NextHist]_vars

----------------------------------------------------------------------------
(***************************************************************************)
(* Claims about the binding.                                               *)
(***************************************************************************)
LoadSection == { "load_library", "load_address", "store" }

\* C1: at most one thread ever enters the load section of
\* _Init_icu_functions (the exchange __not_set -> __detecting has a single
\* winner, also against a thread that first read __detecting).
C1_SingleInitializer == Cardinality(loaders) <= 1

\* C2: once _Api_level is __has_failed or __has_icu_addresses, no later
\* step changes it.
C2_LevelIsTerminal ==
    [][(Api_level \in {__has_failed, __has_icu_addresses})
           => (Api_level' = Api_level)]_vars

\* C3: __std_tzbd_get_sys_info and __std_tzbd_get_local_info reach a
\* backend function pointer only while _Api_level is __has_icu_addresses;
\* in any other state they call none.
C3_InfoCallsBackendOnlyWhenReady ==
    \A t \in Threads :
        op[t] \in InfoFns => disp[t] \in { "none", "called_ready" }

\* C4: whenever _Api_level is __has_icu_addresses all twelve pointers are
\* stored, and the step that stores __has_icu_addresses is taken by an
\* initializer whose LoadLibraryExW succeeded and none of whose twelve
\* lookups failed.
C4_ReadyTableComplete ==
    /\ [](Api_level = __has_icu_addresses => Pfn = AllSymbols)
    /\ [][\A t \in Threads :
            (pc[t] = "store" /\ pc'[t] # "store"
                 /\ Api_level' = __has_icu_addresses)
            => (Module[t] /\ Last_error[t] = ERROR_SUCCESS
                  /\ AllSymbols \subseteq exported)
         ]_vars

\* C4 witness: __has_icu_addresses was published by one initializer after
\* another initializer had published __has_failed.
C4_Witness ==
    /\ Api_level = __has_icu_addresses
    /\ failedPub
    /\ Pfn = AllSymbols

\* C5: a call of _Acquire_icu_functions that starts after __has_failed was
\* published never enters the load section and returns __has_failed.
C5_FailureIsCached ==
    \A t \in Threads :
        afterFailed[t] =>
            /\ pc[t] \notin LoadSection
            /\ (pc[t] = "acquired" => ret[t] = __has_failed)

\* C6: every call of _Acquire_icu_functions returns, and what it returns is
\* __has_failed or __has_icu_addresses.
C6_AcquireReturns ==
    /\ [](\A t \in Threads :
            pc[t] = "acquired" => ret[t] \in {__has_failed, __has_icu_addresses})
    /\ \A t \in Threads :
           (pc[t] \in {"cas"} \cup LoadSection) ~> (pc[t] = "acquired")

\* C6 witness: two threads went through the load section and a third call
\* found the published level; all of them have returned.
C6_Witness ==
    /\ Cardinality(loaders) = NumThreads
    /\ \A t \in Threads : pc[t] = "acquired"
    /\ \E t \in Threads : ret[t] = __has_icu_addresses

----------------------------------------------------------------------------
(***************************************************************************)
(* Claims about the queries.  They speak of the queries none of whose      *)
(* steps fails.                                                            *)
(***************************************************************************)
SysAnswered ==
    /\ answer.fn = "__std_tzbd_get_sys_info"
    /\ query.f = "none"
    /\ ~answer.info.null

LocalAnswered ==
    /\ answer.fn = "__std_tzbd_get_local_info"
    /\ query.f = "none"
    /\ query.f2 = "none"
    /\ ~answer.info.null

\* The transitions of zone z at or before t, and those strictly after t.
AtOrBefore(z, t) == { x \in Transitions(z) : x <= t }
After(z, t) == { x \in Transitions(z) : x > t }

RefBegin(z, t) ==
    IF AtOrBefore(z, t) = {} THEN U_DATE_MIN
    ELSE CHOOSE x \in AtOrBefore(z, t) : \A y \in AtOrBefore(z, t) : y <= x

RefEnd(z, t) ==
    IF After(z, t) = {} THEN U_DATE_MAX
    ELSE CHOOSE x \in After(z, t) : \A y \in After(z, t) : x <= y

\* C7: __std_tzbd_get_sys_info(Z, t) answers begin <= t < end, begin being
\* the latest transition of Z at or before t (U_DATE_MIN if there is none)
\* and end the earliest transition strictly after t (U_DATE_MAX if there is
\* none); asked at a transition T it answers begin = T.
C7_SysInfoInterval ==
    SysAnswered =>
        /\ answer.info.Data.begin = RefBegin(query.tz, query.t)
        /\ answer.info.Data.end = RefEnd(query.tz, query.t)
        /\ answer.info.Data.begin <= query.t
        /\ query.t < answer.info.Data.end
        /\ (query.t \in Transitions(query.tz) => answer.info.Data.begin = query.t)

\* C7 witness: a query at exactly a transition instant that has a later
\* transition was answered with begin equal to that instant.
C7_Witness ==
    /\ SysAnswered
    /\ query.t \in Transitions(query.tz)
    /\ answer.info.Data.begin = query.t
    /\ answer.info.Data.end # U_DATE_MAX

\* The calendar of zone z set to instant t.
CalAt(z, t) == [ null |-> FALSE, zone |-> z, millis |-> t ]

\* C8: __std_tzbd_get_sys_info answers save = UCAL_DST_OFFSET and
\* offset = UCAL_ZONE_OFFSET + save when ucal_inDaylightTime holds at the
\* instant, and save = 0 and offset = UCAL_ZONE_OFFSET when it does not,
\* whatever UCAL_DST_OFFSET is.
C8_SaveAndOffset ==
    SysAnswered =>
        IF ucal_inDaylightTime(CalAt(query.tz, query.t))
        THEN /\ answer.info.Data.save
                  = ucal_get(CalAt(query.tz, query.t), "UCAL_DST_OFFSET")
             /\ answer.info.Data.offset
                  = ucal_get(CalAt(query.tz, query.t), "UCAL_ZONE_OFFSET")
                      + answer.info.Data.save
        ELSE /\ answer.info.Data.save = 0
             /\ answer.info.Data.offset
                  = ucal_get(CalAt(query.tz, query.t), "UCAL_ZONE_OFFSET")

\* What __std_tzbd_get_sys_info answers for zone z at instant t.
SysData(z, t) == __std_tzbd_get_sys_info(z, t, "none").Data

\* The start-of-rule and end-of-rule conditions of a local time L, first
\* being the answer for L taken as a system instant.
StartOfRule(first, L) ==
    /\ first.begin # U_DATE_MIN
    /\ L - first.offset < first.begin + U_MILLIS_PER_DAY

EndOfRule(first, L) ==
    /\ ~StartOfRule(first, L)
    /\ first.end # U_DATE_MAX
    /\ L - first.offset > first.end - U_MILLIS_PER_DAY

\* The result of kind k with the two answers a and b.
IsPair(info, k, a, b) ==
    /\ info.Result = k
    /\ info.First = a
    /\ info.Second = b

IsUnique(info, a) ==
    /\ info.Result = "unique"
    /\ info.First = a

\* The four cases of the start of rule `first`: prev is the answer for the
\* millisecond before first.begin.
StartCases(info, first, prev, L) ==
    /\ (L - first.offset >= first.begin /\ L - prev.offset < first.begin)
           => IsPair(info, "ambiguous", prev, first)
    /\ (L - first.offset >= first.begin /\ L - prev.offset >= first.begin)
           => IsUnique(info, first)
    /\ (L - first.offset < first.begin /\ L - prev.offset >= first.begin)
           => IsPair(info, "nonexistent", prev, first)
    /\ (L - first.offset < first.begin /\ L - prev.offset < first.begin)
           => IsUnique(info, prev)

\* The four cases of the end of rule `first`: next is the answer for the
\* millisecond after first.end.
EndCases(info, first, next, L) ==
    /\ (L - first.offset < first.end /\ L - next.offset >= first.end)
           => IsPair(info, "ambiguous", first, next)
    /\ (L - first.offset < first.end /\ L - next.offset < first.end)
           => IsUnique(info, first)
    /\ (L - first.offset >= first.end /\ L - next.offset < first.end)
           => IsPair(info, "nonexistent", first, next)
    /\ (L - first.offset >= first.end /\ L - next.offset >= first.end)
           => IsUnique(info, next)

StartChecked(info, z, first, L) ==
    StartOfRule(first, L)
        => StartCases(info, first, SysData(z, first.begin - 1), L)

EndChecked(info, z, first, L) ==
    EndOfRule(first, L)
        => EndCases(info, first, SysData(z, first.end + 1), L)

\* C9: __std_tzbd_get_local_info near the start T of the rule `first` found
\* for the local time L taken as a system instant (first.begin is not
\* U_DATE_MIN and L - first.offset < T + U_MILLIS_PER_DAY), prev being the
\* answer for T - 1: ambiguous (prev, first) when L - first.offset >= T and
\* L - prev.offset < T; unique first when both are >= T; nonexistent
\* (prev, first) when L - first.offset < T and L - prev.offset >= T; unique
\* prev when both are < T.
C9_StartOfRule ==
    LocalAnswered =>
        StartChecked(answer.info, query.tz, SysData(query.tz, query.t), query.t)

\* C9 witness: a local time near the start of its rule answered as
\* ambiguous with the previous rule first.
C9_Witness ==
    /\ LocalAnswered
    /\ StartOfRule(SysData(query.tz, query.t), query.t)
    /\ answer.info.Result = "ambiguous"
    /\ answer.info.Second = SysData(query.tz, query.t)

\* C10: __std_tzbd_get_local_info near the end T of the rule `first` (the
\* start-of-rule condition is false, first.end is not U_DATE_MAX and
\* L - first.offset > T - U_MILLIS_PER_DAY), next being the answer for T + 1:
\* ambiguous (first, next) when L - first.offset < T and L - next.offset >= T;
\* unique first when both are < T; nonexistent (first, next) when
\* L - first.offset >= T and L - next.offset < T; unique next when both are
\* >= T.
C10_EndOfRule ==
    LocalAnswered =>
        EndChecked(answer.info, query.tz, SysData(query.tz, query.t), query.t)

\* C10 witness: a local time near the end of its rule and past the end by
\* both offsets, answered as unique with the next rule.
C10_Witness ==
    /\ LocalAnswered
    /\ EndOfRule(SysData(query.tz, query.t), query.t)
    /\ answer.info.Result = "unique"
    /\ answer.info.First # SysData(query.tz, query.t)

\* C11: in every answer of __std_tzbd_get_local_info, _Second is other than
\* value-initialised exactly when _Result is not unique; the unique answers
\* of the two near-boundary branches have a value-initialised _Second too.
C11_SecondIffNotUnique ==
    LocalAnswered =>
        ((answer.info.Second # NoData) <=> (answer.info.Result # "unique"))

\* The local time at which the gap or overlap of a transition at T between
\* rules A and B begins, and its width.
WindowStart(A, B, T) ==
    T + (IF A.offset < B.offset THEN A.offset ELSE B.offset)

WindowWidth(A, B) ==
    IF A.offset < B.offset THEN B.offset - A.offset ELSE A.offset - B.offset

\* The answer `info` for local time L around the transition at T from rule
\* A to rule B.
AroundTransition(info, A, B, T, L) ==
    /\ (WindowStart(A, B, T) <= L /\ L < WindowStart(A, B, T) + WindowWidth(A, B))
           => IsPair(info,
                     IF A.offset > B.offset THEN "ambiguous" ELSE "nonexistent",
                     A, B)
    /\ (WindowStart(A, B, T) - Days(2) <= L /\ L < WindowStart(A, B, T))
           => IsUnique(info, A)
    /\ (WindowStart(A, B, T) + WindowWidth(A, B) <= L
          /\ L <= WindowStart(A, B, T) + Days(2))
           => IsUnique(info, B)

\* C12: for a transition at T from rule A (offset a) to rule B (offset
\* b # a), with L0 = T + min(a, b) and w = |a - b|: a local time in
\* [L0, L0 + w) is ambiguous when a > b and nonexistent when a < b, with
\* (_First, _Second) = (A, B); a local time in [L0 - 2 days, L0) is unique
\* with _First = A; one in [L0 + w, L0 + 2 days] is unique with _First = B.
C12_TransitionWindows ==
    LocalAnswered =>
        \A T \in Transitions(query.tz) :
            SysData(query.tz, T - 1).offset # SysData(query.tz, T).offset
                => AroundTransition(answer.info, SysData(query.tz, T - 1),
                                    SysData(query.tz, T), T, query.t)

\* C12 witness: the local time exactly two days after the start of the
\* window of an offset-changing transition was answered unique with the
\* rule that begins at the transition.
C12_Witness ==
    /\ LocalAnswered
    /\ \E T \in Transitions(query.tz) :
         /\ SysData(query.tz, T - 1).offset # SysData(query.tz, T).offset
         /\ query.t = WindowStart(SysData(query.tz, T - 1),
                                  SysData(query.tz, T), T) + Days(2)
         /\ IsUnique(answer.info, SysData(query.tz, T))

ToSysAnswered ==
    /\ answer.fn = "to_sys"
    /\ ~answer.info.null

\* The system instant sys lies in the interval of the rule d.
InRule(sys, d) == d.begin <= sys /\ sys < d.end

\* C13: whenever the local_info of L is ambiguous, to_sys(L, earliest) is
\* strictly before to_sys(L, latest) (first.offset > second.offset), both
\* map back to L under to_local, L - first.offset lies in
\* [first.begin, first.end) and L - second.offset in
\* [second.begin, second.end).
C13_AmbiguousCandidates ==
    (ToSysAnswered /\ answer.info.Result = "ambiguous") =>
        /\ answer.info.First.offset > answer.info.Second.offset
        /\ to_sys(answer.info, query.t, "earliest").sys
             < to_sys(answer.info, query.t, "latest").sys
        /\ InRule(query.t - answer.info.First.offset, answer.info.First)
        /\ InRule(query.t - answer.info.Second.offset, answer.info.Second)
        /\ to_local(query.tz, query.t - answer.info.First.offset) = query.t
        /\ to_local(query.tz, query.t - answer.info.Second.offset) = query.t
        /\ (query.policy # "strict"
              => to_local(query.tz, answer.result.sys) = query.t)

\* C13 witness: to_sys(L, latest) answered for an ambiguous local time found
\* by the start-of-rule branch.
C13_Witness ==
    /\ ToSysAnswered
    /\ answer.info.Result = "ambiguous"
    /\ query.policy = "latest"
    /\ answer.info.Second = SysData(query.tz, query.t)
    /\ answer.result.sys = query.t - answer.info.Second.offset

\* The local_info of the queried local time.
LocalInfoOfQuery ==
    __std_tzbd_get_local_info(query.tz, query.t, "none", "none")

\* C14: to_sys(L, choose) returns L - first.offset for both choices when the
\* local_info of L is unique; L - first.offset for earliest and
\* L - second.offset for latest when it is ambiguous; first.end for both
\* when it is nonexistent.
C14_ToSysByPolicy ==
    (ToSysAnswered /\ query.policy # "strict") =>
        /\ answer.result.thrown = "none"
        /\ LocalInfoOfQuery.Result = "unique"
             => answer.result.sys = query.t - LocalInfoOfQuery.First.offset
        /\ (LocalInfoOfQuery.Result = "ambiguous" /\ query.policy = "earliest")
             => answer.result.sys = query.t - LocalInfoOfQuery.First.offset
        /\ (LocalInfoOfQuery.Result = "ambiguous" /\ query.policy = "latest")
             => answer.result.sys = query.t - LocalInfoOfQuery.Second.offset
        /\ LocalInfoOfQuery.Result = "nonexistent"
             => answer.result.sys = LocalInfoOfQuery.First.end

\* C14 witness: to_sys(L, earliest) of a nonexistent local time returned the
\* instant of the transition, the end of the rule before the gap.
C14_Witness ==
    /\ ToSysAnswered
    /\ query.policy = "earliest"
    /\ LocalInfoOfQuery.Result = "nonexistent"
    /\ answer.result.sys \in Transitions(query.tz)
    /\ answer.result.sys = LocalInfoOfQuery.First.end

\* C15: the strict to_sys(L) returns L - first.offset exactly when the
\* local_info of L is unique; it throws nonexistent_local_time exactly when
\* it is nonexistent and ambiguous_local_time exactly when it is ambiguous,
\* and returns no instant then.
C15_StrictToSys ==
    (ToSysAnswered /\ query.policy = "strict") =>
        /\ (answer.result.thrown = "none") <=> (LocalInfoOfQuery.Result = "unique")
        /\ answer.result.thrown = "none"
             => answer.result.sys = query.t - LocalInfoOfQuery.First.offset
        /\ (answer.result.thrown = "nonexistent_local_time")
             <=> (LocalInfoOfQuery.Result = "nonexistent")
        /\ (answer.result.thrown = "ambiguous_local_time")
             <=> (LocalInfoOfQuery.Result = "ambiguous")
        /\ answer.result.thrown # "none" => answer.result = Thrown(answer.result.thrown)

\* C15 witness: the strict to_sys threw ambiguous_local_time for a local time
\* inside an overlap.
C15_Witness ==
    /\ ToSysAnswered
    /\ query.policy = "strict"
    /\ LocalInfoOfQuery.Result = "ambiguous"
    /\ answer.result.thrown = "ambiguous_local_time"

\* C16: when the local_info of L is unique, to_local(to_sys(L, earliest)) is
\* L: __std_tzbd_get_sys_info at L - first.offset answers first.offset.
C16_RoundTrip ==
    (ToSysAnswered /\ query.policy = "earliest"
       /\ answer.info.Result = "unique") =>
        /\ answer.result.thrown = "none"
        /\ to_local(query.tz, answer.result.sys) = query.t
        /\ SysData(query.tz, query.t - answer.info.First.offset).offset
             = answer.info.First.offset

\* C16 witness: a unique local time just before a gap, which the
\* start-of-rule branch answered with the previous rule, went the round trip.
C16_Witness ==
    /\ ToSysAnswered
    /\ query.policy = "earliest"
    /\ answer.info.Result = "unique"
    /\ StartOfRule(SysData(query.tz, query.t), query.t)
    /\ answer.info.First # SysData(query.tz, query.t)
    /\ to_local(query.tz, answer.result.sys) = query.t

----------------------------------------------------------------------------
(***************************************************************************)
(* Claims about the registry.                                              *)
(***************************************************************************)
EnumeratedIds == { query.ids[i] : i \in 1..Len(query.ids) }

ZonesOf(db) == { db.zones[h] : h \in 1..Len(db.zones) }
LinkNamesOf(db) == { l.name : l \in db.links }

\* The link the table has for an alias name.
TableLink(name) ==
    [ name |-> name,
      target |-> (CHOOSE k \in { _Known_links[i] : i \in 1..Len(_Known_links) } :
                     k._Name = name)._Target ]

\* C17: the registry build partitions the enumerated ids: an id is emitted
\* as a link, with the table's target, exactly when it is an alias name of
\* _Known_links, and as a zone otherwise; no enumerated id is both and none
\* is neither.
C17_ZonesAndLinksPartition ==
    answer.fn = "tzdb" =>
        /\ \A i \in 1..Len(query.ids) :
             /\ (answer.info._Links[i] # nullptr) <=> (query.ids[i] \in AliasNames)
             /\ query.ids[i] \in AliasNames
                  => /\ TableLink(query.ids[i]) \in answer.db.links
                     /\ answer.info._Links[i] = TableLink(query.ids[i]).target
        /\ LinkNamesOf(answer.db) = EnumeratedIds \cap AliasNames
        /\ ZonesOf(answer.db) = EnumeratedIds \ AliasNames
        /\ \A l \in answer.db.links : l = TableLink(l.name)

\* C17 witness: a snapshot built from an enumeration with a known alias, its
\* target and a further zone.
C17_Witness ==
    /\ answer.fn = "tzdb"
    /\ answer.db.links # {}
    /\ Len(answer.db.zones) >= 2
    /\ Len(query.ids) = Len(answer.db.zones) + Cardinality(answer.db.links)

Lookups == { answer.lookups[i] : i \in 1..Len(answer.lookups) }

\* C18: within one snapshot locate_zone of a link alias returns the handle
\* locate_zone of the link's target returns: the zone found has the
\* target's name, not the alias, and repeated lookups of either name return
\* that handle.
C18_AliasResolvesToTarget ==
    answer.fn = "tzdb" =>
        /\ \A a \in Lookups :
             a.name \in AliasNames \cap EnumeratedIds
               => /\ a.handle # 0
                  /\ ZoneName(answer.db, a.handle) = TableLink(a.name).target
                  /\ \A b \in Lookups :
                       b.name \in { a.name, TableLink(a.name).target }
                          => b.handle = a.handle
        /\ \A a \in Lookups :
             a.handle # 0
               => \A b \in Lookups :
                    b.name \in { a.name, ZoneName(answer.db, a.handle) }
                       => b.handle = a.handle

RegAnswered == answer.fn = "__std_tzdb_get_time_zones"

Succeeded(info) == ~info.null /\ info.Err = "_Success"

\* C19: the registry build fails as a whole: when the enumeration cannot be
\* opened or counted, or a uenum_unext or a conversion of an id fails, the
\* build returns nullptr or an error other than _Success; every result
\* returned with _Success has all its _Num_time_zones names present.
C19_BuildFailsAtomically ==
    RegAnswered =>
        /\ (\/ Api_level # __has_icu_addresses
            \/ query.f.step \in { "open_enum", "uenum_count", "uenum_unext",
                                  "wide_to_narrow", "alloc_narrow" })
               => ~Succeeded(answer.info)
        /\ Succeeded(answer.info)
               => /\ answer.info._Num_time_zones = Len(query.ids)
                  /\ Len(answer.info._Names) = answer.info._Num_time_zones
                  /\ \A i \in 1..answer.info._Num_time_zones :
                         /\ answer.info._Names[i] # nullptr
                         /\ answer.info._Names[i] = query.ids[i]

\* C19 witness: uenum_unext failed after the first name was stored, and the
\* build returned _Icu_error with that name in its first slot.
C19_Witness ==
    /\ RegAnswered
    /\ query.f.step = "uenum_unext"
    /\ query.f.idx >= 2
    /\ ~answer.info.null
    /\ answer.info.Err = "_Icu_error"
    /\ answer.info._Names[1] # nullptr

\* C20: a conversion of a zone id that fails in the middle of the
\* enumeration is reported with an error other than the one reported when
\* the backend library could not be loaded.
C20_ConversionFailureDistinct ==
    (RegAnswered /\ Api_level = __has_icu_addresses
       /\ query.f.step = "wide_to_narrow") =>
        /\ ~Succeeded(answer.info)
        /\ ~answer.info.null
        /\ answer.info.Err
             # __std_tzdb_get_time_zones(__has_failed, query.ids, NoFailure).Err

----------------------------------------------------------------------------
(***************************************************************************)
(* Claims about the leap seconds.                                          *)
(***************************************************************************)
LeapAnswered == answer.fn = "__std_tzdb_get_reg_leap_seconds"

\* The four outcomes of the comment at tzdb.cpp:592-595.
NoNewData(r, prev) == r.current_reg_ls_size <= prev /\ r.null
ReadSucceeded(r, prev) == r.current_reg_ls_size > prev /\ ~r.null
ReadFailed(r, prev) == r.current_reg_ls_size = 0 /\ ~r.null
AllocationFailed(r, prev) == r.current_reg_ls_size > prev /\ r.null

\* The registry holds more entries than the caller has, and their array was
\* allocated and read with the given status.
NewDataRead(prev, reg) ==
    /\ reg.open = ERROR_SUCCESS
    /\ reg.status \in { ERROR_SUCCESS, ERROR_MORE_DATA }
    /\ reg.byte_size \div LeapInfoSize > prev
    /\ reg.alloc

\* C21: every return of __std_tzdb_get_reg_leap_seconds is exactly one of:
\* size <= prev with nullptr; size > prev with data; size = 0 with data (the
\* read of new data failed); size > prev with nullptr.  A failed read of
\* new data is reported as the third, never as "no new data", and data with
\* size > prev is returned only when the read succeeded.
C21_LeapOutcomes ==
    LeapAnswered =>
        /\ Cardinality({ k \in 1..4 :
              \/ k = 1 /\ NoNewData(answer.result, query.prev_reg_ls_size)
              \/ k = 2 /\ ReadSucceeded(answer.result, query.prev_reg_ls_size)
              \/ k = 3 /\ ReadFailed(answer.result, query.prev_reg_ls_size)
              \/ k = 4 /\ AllocationFailed(answer.result, query.prev_reg_ls_size) }) = 1
        /\ (NewDataRead(query.prev_reg_ls_size, query.reg)
              /\ query.reg.status2 # ERROR_SUCCESS)
             => ReadFailed(answer.result, query.prev_reg_ls_size)
        /\ ReadSucceeded(answer.result, query.prev_reg_ls_size)
             => (NewDataRead(query.prev_reg_ls_size, query.reg)
                   /\ query.reg.status2 = ERROR_SUCCESS)

\* C21 witness: the registry holds new entries, their array was allocated
\* and the read failed: size 0 is returned with the array.
C21_Witness ==
    /\ LeapAnswered
    /\ NewDataRead(query.prev_reg_ls_size, query.reg)
    /\ query.prev_reg_ls_size > 0
    /\ query.reg.status2 = ERROR_MORE_DATA
    /\ answer.result.current_reg_ls_size = 0
    /\ ~answer.result.null

----------------------------------------------------------------------------
(***************************************************************************)
(* Claims about the tzdb_list.                                             *)
(***************************************************************************)
Snapshots(history) == { history[i] : i \in 1..Len(history) }

\* A snapshot with all its zones and links.
FullyBuilt(snap) ==
    /\ snap.complete
    /\ snap.zones = _Tzdb_build(snap.info).zones
    /\ snap.links = _Tzdb_build(snap.info).links

\* C22: reload_tzdb leaves every older snapshot of the list in place and
\* unchanged, whatever the sequence of reloads: the snapshot a reader
\* obtained earlier is still in the list as it was, and the zone handle it
\* obtained still names its zone.
C22_OlderSnapshotsKept ==
    /\ [][/\ Len(answer'.history) >= Len(answer.history)
          /\ \A i \in 1..Len(answer.history) :
               answer'.history[i + Len(answer'.history) - Len(answer.history)]
                  = answer.history[i]]_vars
    /\ [](answer.held # NoSnapshot
            => /\ answer.held \in Snapshots(answer.history)
               /\ answer.handle # 0
                    => ZoneName(answer.held, answer.handle) = "Etc/UTC"
                         \/ ZoneName(answer.held, answer.handle) = "Africa/Maputo")

\* C22 witness: the reader holds the first snapshot and a zone of it, and
\* two reloads have since put snapshots in front of it.
C22_Witness ==
    /\ answer.held # NoSnapshot
    /\ answer.held.version = 1
    /\ answer.handle # 0
    /\ Len(answer.history) >= 3
    /\ answer.history[Len(answer.history)] = answer.held

\* C23: the list changes only by one step that puts a fully built snapshot
\* in front; the snapshots of the list and the one a reader got are fully
\* built; when reload_tzdb has returned, the front of the list is the
\* snapshot it returned.
C23_AtomicPublish ==
    /\ [](/\ \A snap \in Snapshots(answer.history) : FullyBuilt(snap)
          /\ answer.held # NoSnapshot => FullyBuilt(answer.held)
          /\ answer.returned # 0
               => answer.history[1].version = answer.returned)
    /\ [][answer'.history # answer.history
            => /\ FullyBuilt(answer.building)
               /\ answer'.history = << answer.building >> \o answer.history
               /\ answer'.returned = answer.building.version]_vars

\* C23 witness: the reader got the front while the next snapshot was being
\* built, and reload_tzdb has then published and returned that snapshot.
C23_Witness ==
    /\ answer.building = NoSnapshot
    /\ answer.returned >= 2
    /\ answer.history[1].version = answer.returned
    /\ answer.held # NoSnapshot
    /\ answer.held = answer.history[2]
    /\ answer.held.links # answer.history[1].links

----------------------------------------------------------------------------
(***************************************************************************)
(* Further claims about the queries.                                       *)
(***************************************************************************)
\* The backend calls of _Get_cal and _Get_sys_time.
BackendSteps ==
    { "ucal_open", "ucal_setMillis", "ucal_inDaylightTime", "get_save",
      "get_offset", "get_dst", "previous", "next", "display_name" }

\* The backend call f is made, and fails, in a query of zone z at instant t
\* (the first read of UCAL_DST_OFFSET is made in daylight time only).
BackendFails(f, z, t) ==
    /\ f \in BackendSteps
    /\ f = "get_save" => ucal_inDaylightTime(CalAt(z, t))

\* The instant of the second query of __std_tzbd_get_local_info, if any.
SecondQueried(first, L) == StartOfRule(first, L) \/ EndOfRule(first, L)
SecondInstant(first, L) ==
    IF StartOfRule(first, L) THEN first.begin - 1 ELSE first.end + 1

\* The answer of the query had no step failed.
FailureFree ==
    IF query.fn = "__std_tzbd_get_sys_info"
    THEN __std_tzbd_get_sys_info(query.tz, query.t, "none")
    ELSE __std_tzbd_get_local_info(query.tz, query.t, "none", "none")

\* C24: a backend call that fails during __std_tzbd_get_sys_info or
\* __std_tzbd_get_local_info (ucal_open, ucal_setMillis, ucal_inDaylightTime,
\* ucal_get, ucal_getTimeZoneTransitionDate, ucal_getTimeZoneDisplayName, in
\* the first or in the neighbouring-rule query) makes the call return
\* nullptr or an error other than _Success; an answer with _Success is the
\* answer of the query without failure.
C24_FailuresSurfaced ==
    answer.fn \in InfoFns =>
        /\ BackendFails(query.f, query.tz, query.t)
             => ~Succeeded(answer.info)
        /\ (/\ answer.fn = "__std_tzbd_get_local_info"
            /\ query.f = "none"
            /\ SecondQueried(SysData(query.tz, query.t), query.t)
            /\ BackendFails(query.f2, query.tz,
                            SecondInstant(SysData(query.tz, query.t), query.t)))
             => ~Succeeded(answer.info)
        /\ Succeeded(answer.info) => answer.info = FailureFree

\* C24 witness: ucal_getTimeZoneTransitionDate failed in the
\* neighbouring-rule query, and _Icu_error was returned.
C24_Witness ==
    /\ answer.fn = "__std_tzbd_get_local_info"
    /\ query.f = "none"
    /\ query.f2 = "previous"
    /\ SecondQueried(SysData(query.tz, query.t), query.t)
    /\ ~answer.info.null
    /\ answer.info.Err = "_Icu_error"

\* The first answer of a local query: that for L taken as an instant.
FirstOf == SysData(query.tz, query.t)

\* The implied instant is a day or more from both ends of first, an end at
\* U_DATE_MIN or U_DATE_MAX being at no distance.
FarFromBoth(first, L) ==
    /\ \/ first.begin = U_DATE_MIN
       \/ L - first.offset >= first.begin + U_MILLIS_PER_DAY
    /\ \/ first.end = U_DATE_MAX
       \/ L - first.offset <= first.end - U_MILLIS_PER_DAY

\* C25: __std_tzbd_get_local_info calls _Get_sys_time for _Second at most
\* once, at _First.begin - 1 or at _First.end + 1; when the implied instant
\* is a day or more from both ends of _First (or the end is U_DATE_MIN or
\* U_DATE_MAX) it makes no such call and returns unique with the first
\* answer.
C25_AtMostOneExtraQuery ==
    answer.fn = "__std_tzbd_get_local_info" =>
        /\ Len(answer.asked) <= 1
        /\ query.f = "none" =>
             /\ \A k \in 1..Len(answer.asked) :
                    answer.asked[k] \in { FirstOf.begin - 1, FirstOf.end + 1 }
             /\ FarFromBoth(FirstOf, query.t) =>
                    /\ answer.asked = << >>
                    /\ ~answer.info.null
                    /\ IsUnique(answer.info, FirstOf)

\* C25 witness: a local time a day or more after the start of its rule and
\* a day or more before its end; no second query, unique.
C25_Witness ==
    /\ LocalAnswered
    /\ FirstOf.begin # U_DATE_MIN
    /\ FirstOf.end # U_DATE_MAX
    /\ FarFromBoth(FirstOf, query.t)
    /\ answer.asked = << >>
    /\ answer.info.Result = "unique"

\* The rules of zone z, as __std_tzbd_get_sys_info answers them.
RulesOf(z) ==
    { SysData(z, x) : x \in Transitions(z) \cup { U_DATE_MIN } }

AllNegative(z) == \A r \in RulesOf(z) : r.offset < 0
AllPositive(z) == \A r \in RulesOf(z) : r.offset > 0

NotUnique(info) == info.Result \in { "ambiguous", "nonexistent" }

\* C26: in a zone whose offsets are all negative every ambiguous or
\* nonexistent result comes from the query at _First.end + 1 (the next
\* transition), in a zone whose offsets are all positive from the query at
\* _First.begin - 1 (the previous transition).
C26_BranchBySign ==
    (LocalAnswered /\ NotUnique(answer.info)) =>
        /\ AllNegative(query.tz) => answer.asked = << FirstOf.end + 1 >>
        /\ AllPositive(query.tz) => answer.asked = << FirstOf.begin - 1 >>

\* C26 witness: an ambiguous local time of the zone of negative offsets,
\* found at the end of its rule.
C26_Witness ==
    /\ LocalAnswered
    /\ AllNegative(query.tz)
    /\ answer.info.Result = "ambiguous"
    /\ answer.asked = << FirstOf.end + 1 >>

\* C28: an ambiguous or nonexistent result has first.end = second.begin,
\* first being the rule that ends at the transition and second the rule
\* that begins at it, and their offsets differ.
C28_AdjacentRules ==
    (LocalAnswered /\ NotUnique(answer.info)) =>
        /\ answer.info.First.end = answer.info.Second.begin
        /\ answer.info.First.end \in Transitions(query.tz)
        /\ answer.info.First = SysData(query.tz, answer.info.First.end - 1)
        /\ answer.info.Second = SysData(query.tz, answer.info.First.end)
        /\ answer.info.First.offset # answer.info.Second.offset

\* C28 witness: a nonexistent local time found at the start of its rule.
C28_Witness ==
    /\ LocalAnswered
    /\ answer.info.Result = "nonexistent"
    /\ answer.asked = << FirstOf.begin - 1 >>
    /\ answer.info.First.end = answer.info.Second.begin

\* The rules of z last more than two days, and the offsets and the change
\* of offset between adjacent rules are below a day.
Magnitude(n) == IF n < 0 THEN - n ELSE n

WellSeparated(z) ==
    /\ \A r \in RulesOf(z) :
          /\ \/ r.begin = U_DATE_MIN
             \/ r.end = U_DATE_MAX
             \/ r.end - r.begin > 2 * U_MILLIS_PER_DAY
          /\ Magnitude(r.offset) < U_MILLIS_PER_DAY
    /\ \A r, n \in RulesOf(z) :
          r.end = n.begin => Magnitude(r.offset - n.offset) < U_MILLIS_PER_DAY

\* The rules r of z with L - r.offset in [r.begin, r.end).
Candidates(z, L) == { r \in RulesOf(z) : InRule(L - r.offset, r) }

\* C29: for a zone of well separated rules, __std_tzbd_get_local_info
\* answers unique with the candidate rule when L has one, ambiguous with
\* the two candidates in chronological order when it has two, and
\* nonexistent when it has none.
C29_AgreesWithReference ==
    (LocalAnswered /\ WellSeparated(query.tz)) =>
        /\ Cardinality(Candidates(query.tz, query.t)) <= 2
        /\ Cardinality(Candidates(query.tz, query.t)) = 1
             => /\ answer.info.Result = "unique"
                /\ answer.info.First \in Candidates(query.tz, query.t)
        /\ Cardinality(Candidates(query.tz, query.t)) = 2
             => /\ answer.info.Result = "ambiguous"
                /\ { answer.info.First, answer.info.Second }
                     = Candidates(query.tz, query.t)
                /\ answer.info.First.begin < answer.info.Second.begin
        /\ Candidates(query.tz, query.t) = {}
             => answer.info.Result = "nonexistent"

\* C29 witness: a local time with two candidate rules, answered ambiguous.
C29_Witness ==
    /\ LocalAnswered
    /\ WellSeparated(query.tz)
    /\ Cardinality(Candidates(query.tz, query.t)) = 2
    /\ answer.info.Result = "ambiguous"

----------------------------------------------------------------------------
(***************************************************************************)
(* Further claims about the binding and the registry.                      *)
(***************************************************************************)
\* The last call of thread t has returned, it was __std_tzdb_get_time_zones
\* or __std_tzdb_get_current_zone, and its _Err is _Win_error.
ReturnedWinError(t) ==
    /\ pc[t] = "idle"
    /\ op[t] \in AcquiringFns
    /\ apiErr[t] = "_Win_error"

\* C27: a call of __std_tzdb_get_time_zones or __std_tzdb_get_current_zone
\* whose _Acquire_icu_functions() returns a level other than
\* __has_icu_addresses returns _Win_error and has called no backend
\* function; every call of the two that starts after such a return gets the
\* same level at once and so returns the same.
C27_UnavailableIsWinError ==
    /\ [][ \A t \in Threads :
             (pc[t] = "acquired" /\ pc'[t] = "idle"
                /\ ret[t] # __has_icu_addresses)
               => (apiErr'[t] = "_Win_error" /\ disp'[t] = "none") ]_vars
    /\ [][ \A u \in Threads :
             (pc[u] = "idle" /\ pc'[u] # "idle"
                /\ op'[u] \in AcquiringFns
                /\ \E t \in Threads : ReturnedWinError(t))
               => (pc'[u] = "acquired" /\ ret'[u] = __has_failed) ]_vars

\* C30: whatever ids the backend enumerates, every name that
\* __std_tzdb_get_time_zones returns with a link target has that target
\* among the names returned without one; every link of the snapshot has a
\* target that is a zone of the snapshot and not the name of a link, so that
\* locate_zone of the link's name finds a zone.
C30_LinkTargetsAreZones ==
    /\ (answer.fn \in { "__std_tzdb_get_time_zones", "tzdb" }
          /\ Succeeded(answer.info))
         => \A i \in 1..answer.info._Num_time_zones :
                answer.info._Links[i] # nullptr
                  => \E j \in 1..answer.info._Num_time_zones :
                        /\ answer.info._Names[j] = answer.info._Links[i]
                        /\ answer.info._Links[j] = nullptr
    /\ answer.fn = "tzdb"
         => \A l \in answer.db.links :
                /\ l.target \in ZonesOf(answer.db)
                /\ l.target \notin LinkNamesOf(answer.db)
                /\ locate_zone(answer.db, l.name) # 0

============================================================================
